---- MODULE Spec2Model ----
(***************************************************************************)
(* Kaori protocol: the pure truth compiler (packages/kaori-truth), the     *)
(* event-sourced standings reducer (packages/kaori-flow) and the engine's  *)
(* truth-state life cycle (core/engine.py, core/timeout_handler.py).       *)
(*                                                                         *)
(* Numbers.  Python floats are modelled as scaled integers:                *)
(*   - score means, confidences: 10^-7 units (one digit finer than the     *)
(*     6 decimals round(x, 6) keeps, so that rounding is not the identity) *)
(*   - AI scores: 10^-4 for the compiler, hundredths for the engine        *)
(*   - trust powers: whole units; water levels: hundredths                 *)
(*   - standings: thousandths                                              *)
(* SHA-256 and HMAC-SHA256 are modelled as collision-free: the digest of   *)
(* canonical content c is the tagged value <<"sha256", c>>.                *)
(***************************************************************************)
EXTENDS Integers, Sequences, FiniteSets, TLC

VARIABLES
    clock,      \* wall-clock reading of the host (the compiler must not read it)
    prev,       \* previous compile call: [in, at, out], or Nil
    cur,        \* latest compile call: [in, at, out], or Nil
    held,       \* the TruthState object a caller holds after compile/sign, or Nil
    origin,     \* how `held` came to be: "none" | "compiled" | "signed" | "tampered"
    tamper,     \* the field the last Tamper changed, or None
    store,      \* InMemorySignalStore._signals: the signals in append order
    standings_cache,  \* FlowCore._standings_cache, or Nil
    cache_valid,      \* FlowCore._cache_valid
    replayed,   \* the last replay_at call: [at, standings], or Nil
    reduced,    \* the last direct FlowReducer.reduce call: [signals, state], or Nil
    truth_state,  \* the engine's persisted truth state of one truthkey, or Nil
    now,        \* datetime.now(timezone.utc) of the engine's host, in hours
    tally,      \* the last compute_consensus call: [lib, votes, record], or Nil
    delta_call,   \* two reducers fed one outcome each: [standing, quality_score, correct, incorrect], or Nil
    trust_call,   \* the last call into the trust computation: a record, or Nil
    bucket_call,  \* the last bucketing of instants: a record, or Nil
    offered,      \* the last signal another writer handed to the store, or Nil
    power_call    \* the last effective-power computation: a record, or Nil

truthVars == <<clock, prev, cur, held, origin, tamper>>

flowVars == <<store, standings_cache, cache_valid, replayed, reduced>>

engineVars == <<truth_state, now>>

consensusVars == <<tally>>

callVars == <<delta_call, trust_call, bucket_call, offered, power_call>>

vars == <<clock, prev, cur, held, origin, tamper,
          store, standings_cache, cache_valid, replayed, reduced,
          truth_state, now, tally, delta_call, trust_call, bucket_call, offered, power_call>>

\* Python's None: as a string where a string is optional, as a record where
\* an object is optional; the empty string of a digest-valued field.
None == "None"

Nil == [nil |-> TRUE]

EmptyString == <<"">>

\* --------------------------------------------------------------------------
\* Generic helpers
\* --------------------------------------------------------------------------

Range(s) == {s[i] : i \in DOMAIN s}

Max2(a, b) == IF a >= b THEN a ELSE b

Min2(a, b) == IF a <= b THEN a ELSE b

\* round-half-up integer division n / d for d > 0 (n may be negative)
RoundDiv(n, d) == IF n >= 0 THEN (2 * n + d) \div (2 * d) ELSE -((2 * (-n) + d) \div (2 * d))

RECURSIVE SeqSum(_)
SeqSum(s) == IF s = <<>> THEN 0 ELSE Head(s) + SeqSum(Tail(s))

\* Lexicographic order of every string the code sorts, smallest first.
LexOrder ==
    << "AI_RECOMMENDS_FALSE", "AI_RECOMMENDS_TRUE", "AWAITING_HUMAN_CONSENSUS",
       "CONTRADICTION_DETECTED", "REVIEW_TIMEOUT",
       "gs://kaori-evidence/photo1.jpg", "gs://kaori-evidence/photo2.jpg",
       "high", "low", "moderate",
       "obs-1", "obs-2", "obs-3", "obs-4", "unknown" >>

LexRank(s) == CHOOSE i \in DOMAIN LexOrder : LexOrder[i] = s

\* sorted(set): the elements of S as a sequence in lexicographic order
RECURSIVE SortedSet(_)
SortedSet(S) ==
    IF S = {} THEN <<>>
    ELSE LET m == CHOOSE x \in S : \A y \in S : LexRank(x) <= LexRank(y)
         IN <<m>> \o SortedSet(S \ {m})

\* sorted(list): a list of strings in lexicographic order, duplicates kept
RECURSIVE SortedList(_)
SortedList(s) ==
    IF s = <<>> THEN <<>>
    ELSE LET i == CHOOSE k \in DOMAIN s : \A j \in DOMAIN s : LexRank(s[k]) <= LexRank(s[j])
             rest == [k \in 1..(Len(s) - 1) |-> IF k < i THEN s[k] ELSE s[k + 1]]
         IN <<s[i]>> \o SortedList(rest)

\* str.lower() on the identifiers of the model
Lower(s) ==
    CASE s = "Earth.Flood.v1" -> "earth.flood.v1"
      [] s = "Space.Debris.v1" -> "space.debris.v1"
      [] s = "Meta.Artifact.v1" -> "meta.artifact.v1"
      [] OTHER -> s

\* round(x, 6) of a value held in units of 10^-7
Round6(x) == RoundDiv(x, 10) * 10

\* canonical_hash: SHA-256 over the canonical JSON of obj
canonical_hash(obj) == <<"sha256", obj>>

\* --------------------------------------------------------------------------
\* canonical/datetime.py
\* --------------------------------------------------------------------------

\* A datetime is [second, microsecond, tzinfo, utcoffset]: local wall seconds,
\* the sub-second part, whether it carries a tzinfo ("none" when naive) and
\* that zone's offset in seconds.
IsNaive(dt) == dt.tzinfo = "none"

\* ensure_utc: astimezone(timezone.utc); callers test IsNaive first
ensure_utc(dt) ==
    [second |-> dt.second - dt.utcoffset, microsecond |-> dt.microsecond, tzinfo |-> "utc", utcoffset |-> 0]

\* canonical_datetime: strftime("%Y-%m-%dT%H:%M:%SZ") of the UTC value. The
\* string is determined by, and determines, the whole UTC second.
canonical_datetime(dt) == [fmt |-> "%Y-%m-%dT%H:%M:%SZ", utc_second |-> ensure_utc(dt).second]

\* --------------------------------------------------------------------------
\* trust_snapshot.py
\* --------------------------------------------------------------------------

\* AgentTrust.canonical (flags are kept as a set: sorted(flags) of equal sets agree)
AgentTrustCanonical(t) ==
    [agent_id |-> t.agent_id, effective_power |-> t.effective_power,
     standing |-> t.standing, derived_class |-> t.derived_class, flags |-> t.flags]

\* TrustSnapshot.canonical_trusts: {k: v.canonical()} over sorted items
canonical_trusts(snap) == [k \in DOMAIN snap.agent_trusts |-> AgentTrustCanonical(snap.agent_trusts[k])]

\* TrustSnapshot.compute_hash
compute_hash(snap) == canonical_hash(canonical_trusts(snap))

\* TrustSnapshot.verify_hash
verify_hash(snap) == snap.snapshot_hash = compute_hash(snap)

\* TrustSnapshot.get_power: effective power, 0 when the agent is not in the snapshot
get_power(snap, agent_id) ==
    IF agent_id \in DOMAIN snap.agent_trusts THEN snap.agent_trusts[agent_id].effective_power ELSE 0

\* TrustSnapshot.create
TrustSnapshotCreate(id, time, trusts) ==
    LET s == [snapshot_id |-> id, snapshot_time |-> time, agent_trusts |-> trusts, snapshot_hash |-> EmptyString]
    IN [s EXCEPT !.snapshot_hash = compute_hash(s)]

\* --------------------------------------------------------------------------
\* primitives/claimtype.py
\* --------------------------------------------------------------------------

\* AutovalidationConfig defaults, in units of 10^-7
AiVerifiedTrueThreshold == 8200000

AiVerifiedFalseThreshold == 2000000

\* ClaimType.canonical (resolution, z_index, time_bucket and the consensus and
\* decay blocks are the defaults)
ClaimTypeCanonical(ct) ==
    [id |-> Lower(ct.id), version |-> ct.version, domain |-> ct.domain, topic |-> ct.topic,
     risk_profile |-> ct.risk_profile,
     truthkey |-> [spatial_system |-> ct.spatial_system],
     autovalidation |-> [ai_verified_true_threshold |-> ct.ai_verified_true_threshold,
                         ai_verified_false_threshold |-> ct.ai_verified_false_threshold]]

\* ClaimType.hash
ClaimTypeHash(ct) == canonical_hash(ClaimTypeCanonical(ct))

\* --------------------------------------------------------------------------
\* claim_derivation.py
\* --------------------------------------------------------------------------

\* sum of get_power over the observations, in list order
RECURSIVE TotalPower(_, _)
TotalPower(observations, snap) ==
    IF observations = <<>> THEN 0
    ELSE get_power(snap, Head(observations).reporter_id) + TotalPower(Tail(observations), snap)

\* payload.get("severity", "unknown")
SeverityOf(payload) == IF "severity" \in DOMAIN payload THEN payload.severity ELSE "unknown"

\* severity_weights: the keys of the dict in insertion order (first occurrence)
RECURSIVE SeverityKeys(_)
SeverityKeys(observations) ==
    IF observations = <<>> THEN <<>>
    ELSE LET init == SeverityKeys(SubSeq(observations, 1, Len(observations) - 1))
             k == SeverityOf(observations[Len(observations)].payload)
         IN IF k \in Range(init) THEN init ELSE Append(init, k)

\* severity_weights[k]: the summed power of the observations reporting k
RECURSIVE SeverityWeight(_, _, _)
SeverityWeight(observations, snap, k) ==
    IF observations = <<>> THEN 0
    ELSE (IF SeverityOf(Head(observations).payload) = k
          THEN get_power(snap, Head(observations).reporter_id) ELSE 0)
         + SeverityWeight(Tail(observations), snap, k)

\* max(severity_weights.keys(), key=...): the first key, in insertion order,
\* whose weight is the largest
WeightedModeSeverity(observations, snap) ==
    LET keys == SeverityKeys(observations)
        w(k) == SeverityWeight(observations, snap, k)
        best == CHOOSE i \in DOMAIN keys :
                    /\ \A j \in DOMAIN keys : w(keys[j]) <= w(keys[i])
                    /\ \A j \in 1..(i - 1) : w(keys[j]) < w(keys[i])
    IN keys[best]

\* sum(level * power) and sum(power) over the observations carrying water_level
RECURSIVE WaterSum(_, _)
WaterSum(observations, snap) ==
    IF observations = <<>> THEN 0
    ELSE (IF "water_level" \in DOMAIN Head(observations).payload
          THEN Head(observations).payload.water_level * get_power(snap, Head(observations).reporter_id)
          ELSE 0) + WaterSum(Tail(observations), snap)

RECURSIVE WaterPower(_, _)
WaterPower(observations, snap) ==
    IF observations = <<>> THEN 0
    ELSE (IF "water_level" \in DOMAIN Head(observations).payload
          THEN get_power(snap, Head(observations).reporter_id) ELSE 0)
         + WaterPower(Tail(observations), snap)

\* _derive_earth_claim (canonical_dict sorts the keys: a record has no key order)
derive_earth_claim(observations, snap) ==
    LET base == [severity |-> WeightedModeSeverity(observations, snap),
                 observation_count |-> Len(observations),
                 network_trust |-> TotalPower(observations, snap)]
        wp == WaterPower(observations, snap)
    IN IF (\E i \in DOMAIN observations : "water_level" \in DOMAIN observations[i].payload) /\ wp > 0
       THEN base @@ [water_level_meters |-> RoundDiv(WaterSum(observations, snap), wp)]
       ELSE base

\* _derive_space_claim: the first observation carrying a field decides it
RECURSIVE FirstWins(_)
FirstWins(observations) ==
    IF observations = <<>> THEN <<>>
    ELSE Head(observations).payload @@ FirstWins(Tail(observations))

derive_space_claim(observations, snap) ==
    [observation_count |-> Len(observations), network_trust |-> TotalPower(observations, snap)]
        @@ FirstWins(observations)

\* payload.get("valid", payload.get("is_valid", None))
IsValidOf(payload) ==
    IF "valid" \in DOMAIN payload THEN <<payload.valid>>
    ELSE IF "is_valid" \in DOMAIN payload THEN <<payload.is_valid>> ELSE <<>>

RECURSIVE ValidityPower(_, _, _)
ValidityPower(observations, snap, b) ==
    IF observations = <<>> THEN 0
    ELSE (IF IsValidOf(Head(observations).payload) = <<b>>
          THEN get_power(snap, Head(observations).reporter_id) ELSE 0)
         + ValidityPower(Tail(observations), snap, b)

\* _derive_meta_claim (validity_confidence in units of 10^-4)
derive_meta_claim(observations, snap) ==
    LET base == [observation_count |-> Len(observations), network_trust |-> TotalPower(observations, snap)]
        valid_power == ValidityPower(observations, snap, TRUE)
        invalid_power == ValidityPower(observations, snap, FALSE)
    IN IF valid_power + invalid_power > 0
       THEN base @@ [valid |-> valid_power > invalid_power,
                     validity_confidence |->
                         RoundDiv(Max2(valid_power, invalid_power) * 10000, valid_power + invalid_power)]
       ELSE base

\* _derive_generic_claim
derive_generic_claim(observations, snap) ==
    [observation_count |-> Len(observations), network_trust |-> TotalPower(observations, snap)]

\* derive_claim_payload: dispatch on claim_type.domain.lower()
derive_claim_payload(observations, snap, claim_type) ==
    CASE claim_type.domain \in {"earth", "ocean"} -> derive_earth_claim(observations, snap)
      [] claim_type.domain = "space" -> derive_space_claim(observations, snap)
      [] claim_type.domain = "meta" -> derive_meta_claim(observations, snap)
      [] OTHER -> derive_generic_claim(observations, snap)

\* --------------------------------------------------------------------------
\* compiler.py
\* --------------------------------------------------------------------------

\* ai_variance above this is a contradiction (0.15, in units of 10^-7)
ContradictionVariance == 1500000

\* the contradiction penalty on the confidence (0.2, in units of 10^-7)
ContradictionPenalty == 2000000

\* 1.0 in units of 10^-7
ScoreOne == 10000000

\* the default AI score, 0.5, in units of 10^-4
DefaultAiScore == 5000

RECURSIVE SumSquares(_)
SumSquares(s) == IF s = <<>> THEN 0 ELSE Head(s) * Head(s) + SumSquares(Tail(s))

\* round(num / den * 10^-6, 6), in units of 10^-7
Round6Of(num, den) == 10 * RoundDiv(num, den)

\* n * (n - 1) times the sample variance of the scores, in units of 10^-8
VarianceNumerator(scores) == Len(scores) * SumSquares(scores) - SeqSum(scores) * SeqSum(scores)

\* _compute_observation_aggregate (observations is not empty here), the
\* ai_scores in units of 10^-4: statistics.mean and statistics.variance (the
\* sample variance) of the scores, each rounded to 6 decimals.
compute_observation_aggregate(observations, snap, ai_scores) ==
    LET scores == IF ai_scores = <<>> THEN [i \in 1..Len(observations) |-> DefaultAiScore] ELSE ai_scores
        n == Len(scores)
    IN [observation_count |-> Len(observations),
        network_trust |-> TotalPower(observations, snap),
        ai_confidence_mean |-> Round6Of(SeqSum(scores) * 100, n),
        ai_variance |-> IF n > 1 THEN Round6Of(VarianceNumerator(scores), 100 * n * (n - 1)) ELSE 0]

\* _determine_status with the monitor lane leaving verification_basis unset
determine_status_unbased(aggregate, claim_type, votes) ==
    LET ai_mean == aggregate.ai_confidence_mean
    IN IF aggregate.ai_variance > ContradictionVariance
       THEN <<"UNDECIDED", None, <<"CONTRADICTION_DETECTED">> >>
       ELSE IF claim_type.risk_profile = "monitor"
       THEN IF ai_mean >= claim_type.ai_verified_true_threshold
            THEN <<"VERIFIED_TRUE", None, <<>> >>
            ELSE IF ai_mean <= claim_type.ai_verified_false_threshold
            THEN <<"VERIFIED_FALSE", None, <<>> >>
            ELSE <<"INVESTIGATING", None, <<>> >>
       ELSE <<"PENDING_HUMAN_REVIEW", None, <<"AWAITING_HUMAN_CONSENSUS">> >>

\* _determine_status: <<status, verification_basis, transparency_flags>>
determine_status(aggregate, claim_type, votes) ==
    LET ai_mean == aggregate.ai_confidence_mean
        recommends == IF ai_mean >= claim_type.ai_verified_true_threshold THEN <<"AI_RECOMMENDS_TRUE">>
                      ELSE IF ai_mean <= claim_type.ai_verified_false_threshold THEN <<"AI_RECOMMENDS_FALSE">>
                      ELSE <<>>
    IN IF aggregate.ai_variance > ContradictionVariance
       THEN <<"UNDECIDED", None, <<"CONTRADICTION_DETECTED">> >>
       ELSE IF claim_type.risk_profile = "monitor"
       THEN IF ai_mean >= claim_type.ai_verified_true_threshold
            THEN <<"VERIFIED_TRUE", "AI_AUTOVALIDATION", <<>> >>
            ELSE IF ai_mean <= claim_type.ai_verified_false_threshold
            THEN <<"VERIFIED_FALSE", "AI_AUTOVALIDATION", <<>> >>
            ELSE <<"INVESTIGATING", None, <<>> >>
       ELSE <<"PENDING_HUMAN_REVIEW", None, recommends \o <<"AWAITING_HUMAN_CONSENSUS">> >>

\* _compute_confidence without the contradiction penalty
compute_confidence_unpenalised(aggregate, claim_type, votes, transparency_flags) ==
    [components |-> [ai_confidence |-> aggregate.ai_confidence_mean],
     modifiers |-> {},
     raw_score |-> aggregate.ai_confidence_mean,
     final_score |-> Max2(0, Min2(ScoreOne, aggregate.ai_confidence_mean))]

\* _compute_confidence: the ConfidenceBreakdown
compute_confidence(aggregate, claim_type, votes, transparency_flags) ==
    LET contradiction == "CONTRADICTION_DETECTED" \in Range(transparency_flags)
        raw_score == aggregate.ai_confidence_mean - (IF contradiction THEN ContradictionPenalty ELSE 0)
    IN [components |-> [ai_confidence |-> aggregate.ai_confidence_mean],
        modifiers |-> IF contradiction THEN {<<"contradiction_detected", -ContradictionPenalty>>} ELSE {},
        raw_score |-> raw_score,
        final_score |-> Max2(0, Min2(ScoreOne, raw_score))]

\* validation.py validate_claim_payload against the claim type's output schema:
\* the sorted REQUIRED errors, empty when the payload is valid
SchemaErrors(payload, claim_type) == {k \in claim_type.output_schema_required : k \notin DOMAIN payload}

\* --------------------------------------------------------------------------
\* primitives/truthstate.py
\* --------------------------------------------------------------------------

\* TruthState.semantic_content
semantic_content(ts) ==
    [truthkey |-> ts.truthkey,
     claim_type |-> Lower(ts.claim_type),
     claim_type_hash |-> ts.claim_type_hash,
     claim |-> ts.claim,
     status |-> ts.status,
     verification_basis |-> ts.verification_basis,
     ai_confidence |-> Round6(ts.ai_confidence),
     confidence |-> Round6(ts.confidence),
     transparency_flags |-> SortedList(ts.transparency_flags),
     evidence_refs |-> SortedList(ts.evidence_refs),
     observation_ids |-> SortedList(ts.observation_ids),
     trust_snapshot_hash |-> ts.compile_inputs.trust_snapshot_hash,
     policy_version |-> ts.compile_inputs.policy_version]

\* an envelope that leaves compile_time out
full_envelope_untimed(ts) ==
    semantic_content(ts) @@ [compiler_version |-> ts.compile_inputs.compiler_version]

\* TruthState.full_envelope
full_envelope(ts) ==
    semantic_content(ts) @@
        [compile_time |-> canonical_datetime(ts.compile_inputs.compile_time),
         compiler_version |-> ts.compile_inputs.compiler_version]

\* TruthState.compute_semantic_hash
compute_semantic_hash(ts) == canonical_hash(semantic_content(ts))

\* TruthState.compute_state_hash
compute_state_hash(ts) == canonical_hash(full_envelope(ts))

\* TruthState.verify_hashes
verify_hashes(ts) ==
    /\ ts.security.semantic_hash = compute_semantic_hash(ts)
    /\ ts.security.state_hash = compute_state_hash(ts)

\* --------------------------------------------------------------------------
\* compiler.py: compile_truth_state
\* --------------------------------------------------------------------------

\* observation_ids = sorted(str(obs.observation_id) for obs in observations)
ObservationIds(observations) == SortedList([i \in DOMAIN observations |-> observations[i].observation_id])

\* evidence_refs = sorted(set(ref.uri for obs in observations for ref in obs.evidence_refs))
EvidenceRefs(observations) ==
    SortedSet(UNION {Range(observations[i].evidence_refs) : i \in DOMAIN observations})

\* CompileInputs stamped with the host clock instead of the caller's compile_time
CompileInputsWallClock(in) ==
    [observation_ids |-> ObservationIds(in.observations),
     claim_type_id |-> in.claim_type.id,
     claim_type_hash |-> ClaimTypeHash(in.claim_type),
     policy_version |-> in.policy_version,
     compiler_version |-> in.compiler_version,
     trust_snapshot_hash |-> in.trust_snapshot.snapshot_hash,
     compile_time |-> clock]

\* CompileInputs(...)
CompileInputs(in) ==
    [observation_ids |-> ObservationIds(in.observations),
     claim_type_id |-> in.claim_type.id,
     claim_type_hash |-> ClaimTypeHash(in.claim_type),
     policy_version |-> in.policy_version,
     compiler_version |-> in.compiler_version,
     trust_snapshot_hash |-> in.trust_snapshot.snapshot_hash,
     compile_time |-> in.compile_time]

\* a SecurityBlock that carries an HMAC of the state hash
SignedSecurity(semantic_hash, state_hash, compile_time) ==
    [semantic_hash |-> semantic_hash, state_hash |-> state_hash,
     signature |-> <<"hmac-sha256", "kaori-dev-signing-key-do-not-use-in-production", state_hash>>,
     signing_method |-> "local_hmac", key_id |-> "local_dev_key", signed_at |-> compile_time]

\* the SecurityBlock compile leaves: both hashes, no signature
PendingSecurity(semantic_hash, state_hash, compile_time) ==
    [semantic_hash |-> semantic_hash, state_hash |-> state_hash, signature |-> EmptyString,
     signing_method |-> "pending", key_id |-> "pending", signed_at |-> compile_time]

\* steps 3-6: the TruthState with the placeholder security block
AssembleTruthState(in) ==
    LET aggregate == compute_observation_aggregate(in.observations, in.trust_snapshot, in.ai_scores)
        st == determine_status(aggregate, in.claim_type, in.votes)
        breakdown == compute_confidence(aggregate, in.claim_type, in.votes, st[3])
    IN [truthkey |-> in.truth_key,
        claim_type |-> in.claim_type.id,
        claim_type_hash |-> ClaimTypeHash(in.claim_type),
        status |-> st[1],
        verification_basis |-> st[2],
        claim |-> derive_claim_payload(in.observations, in.trust_snapshot, in.claim_type),
        ai_confidence |-> aggregate.ai_confidence_mean,
        confidence |-> breakdown.final_score,
        confidence_breakdown |-> breakdown,
        transparency_flags |-> st[3],
        compile_inputs |-> CompileInputs(in),
        evidence_refs |-> EvidenceRefs(in.observations),
        observation_ids |-> ObservationIds(in.observations),
        consensus |-> Nil,
        security |-> PendingSecurity(EmptyString, EmptyString, in.compile_time)]

\* step 7 with the semantic hash stored in both hash fields
WithSemanticHashTwice(ts) ==
    [ts EXCEPT !.security = PendingSecurity(compute_semantic_hash(ts), compute_semantic_hash(ts),
                                            ts.compile_inputs.compile_time)]

\* step 7: truth_state.security = SecurityBlock(semantic_hash, state_hash, "", "pending", ...)
WithComputedHashes(ts) ==
    [ts EXCEPT !.security = PendingSecurity(compute_semantic_hash(ts), compute_state_hash(ts),
                                            ts.compile_inputs.compile_time)]

\* step 1 without the snapshot hash verification
ValidationFailureUnverified(in) ==
    IF in.compile_time = Nil THEN "compile_time MUST be explicitly provided"
    ELSE IF in.observations = <<>> THEN "At least one observation is required"
    ELSE ""

\* step 1: the validation that precedes every use of the inputs; "" when it passes
ValidationFailure(in) ==
    IF in.compile_time = Nil THEN "compile_time MUST be explicitly provided"
    ELSE IF in.observations = <<>> THEN "At least one observation is required"
    ELSE IF ~verify_hash(in.trust_snapshot) THEN "TrustSnapshot hash mismatch"
    ELSE ""

\* compile_truth_state: what the call yields. kind is "TruthState" (with ts),
\* or the exception raised; used_trust tells whether get_power was reached.
compile_truth_state(in) ==
    IF ValidationFailure(in) # ""
    THEN [kind |-> "CompilationError", message |-> ValidationFailure(in), used_trust |-> FALSE]
    ELSE IF SchemaErrors(derive_claim_payload(in.observations, in.trust_snapshot, in.claim_type),
                         in.claim_type) # {}
    THEN [kind |-> "CompilationError", message |-> "Claim payload schema validation failed",
          used_trust |-> TRUE]
    ELSE IF IsNaive(in.compile_time)
    THEN [kind |-> "NaiveDatetimeError", message |-> "Naive datetime not allowed", used_trust |-> TRUE]
    ELSE [kind |-> "TruthState", ts |-> WithComputedHashes(AssembleTruthState(in)), used_trust |-> TRUE]

\* --------------------------------------------------------------------------
\* signing.py
\* --------------------------------------------------------------------------

LOCAL_SIGNING_KEY == "kaori-dev-signing-key-do-not-use-in-production"

\* sign_with_hmac: HMAC-SHA256 of data under the key
sign_with_hmac(data) == <<"hmac-sha256", LOCAL_SIGNING_KEY, data>>

\* sign_truth_state
sign_truth_state(ts, sign_time, key_id) ==
    [ts EXCEPT !.security =
        [semantic_hash |-> compute_semantic_hash(ts),
         state_hash |-> compute_state_hash(ts),
         signature |-> sign_with_hmac(compute_state_hash(ts)),
         signing_method |-> "local_hmac",
         key_id |-> key_id,
         signed_at |-> sign_time]]

\* verify_signature
verify_signature(ts) ==
    /\ ts.security # Nil
    /\ verify_hashes(ts)
    /\ sign_with_hmac(ts.security.state_hash) = ts.security.signature

\* --------------------------------------------------------------------------
\* kaori-flow: policy.py
\* --------------------------------------------------------------------------

\* StandingGainConfig.coefficient
GainCoefficient == 5

\* PenaltyConfig.coefficient and PenaltyConfig.amplifier
PenaltyCoefficient == 5

PenaltyAmplifier == 2

\* BoundsConfig.min and BoundsConfig.max, in thousandths
BoundsMin == 0

BoundsMax == 1000000

\* BoundsConfig.initial_by_role with FlowPolicy.get_initial_standing's default
get_initial_standing(role) ==
    CASE role = "observer" -> 200000
      [] role = "validator" -> 250000
      [] role = "expert" -> 350000
      [] role = "authority" -> 500000
      [] role = "policy" -> 500000
      [] OTHER -> 200000

\* --------------------------------------------------------------------------
\* kaori-flow: reducer.py
\* --------------------------------------------------------------------------

\* math.log(1 + q) in thousandths, for the quality scores of the model
LogOnePlus(q) ==
    CASE q = 0 -> 0
      [] q = 50 -> 3932
      [] q = 80 -> 4394

\* dict.get(key, default) on a payload
Get(payload, key, default) == IF key \in DOMAIN payload THEN payload[key] ELSE default

\* d[k] = v on a dict
Put(d, k, v) == (k :> v) @@ d

\* ReducerState()
EmptyState == [standings |-> <<>>, agent_roles |-> <<>>]

\* max(bounds.min, min(x, bounds.max))
Clamp(x) == Max2(BoundsMin, Min2(x, BoundsMax))

\* _handle_agent_registered
handle_agent_registered(state, signal) ==
    LET agent_id == signal.object_id
        role == Get(signal.payload, "role", "observer")
    IN IF agent_id \notin DOMAIN state.standings
       THEN [standings |-> Put(state.standings, agent_id, get_initial_standing(role)),
             agent_roles |-> Put(state.agent_roles, agent_id, role)]
       ELSE state

\* _handle_policy_registered
handle_policy_registered(state, signal) ==
    LET policy_id == signal.object_id
    IN IF policy_id \notin DOMAIN state.standings
       THEN [standings |-> Put(state.standings, policy_id, get_initial_standing("policy")),
             agent_roles |-> Put(state.agent_roles, policy_id, "policy")]
       ELSE state

\* the contributor loop with the penalty left unamplified
RECURSIVE UpdateContributorsUnamplified(_, _, _, _)
UpdateContributorsUnamplified(standings, contributors, outcome, quality_score) ==
    IF contributors = <<>> THEN standings
    ELSE LET agent_id == Head(contributors)
             current == IF agent_id \in DOMAIN standings THEN standings[agent_id]
                        ELSE get_initial_standing("observer")
             delta == IF outcome = "correct" THEN GainCoefficient * LogOnePlus(quality_score)
                      ELSE IF outcome = "incorrect"
                      THEN -(PenaltyCoefficient * LogOnePlus(quality_score))
                      ELSE 0
         IN UpdateContributorsUnamplified(Put(standings, agent_id, Clamp(current + delta)),
                                          Tail(contributors), outcome, quality_score)

\* the contributor loop of _handle_truthstate_emitted
RECURSIVE UpdateContributors(_, _, _, _)
UpdateContributors(standings, contributors, outcome, quality_score) ==
    IF contributors = <<>> THEN standings
    ELSE LET agent_id == Head(contributors)
             current == IF agent_id \in DOMAIN standings THEN standings[agent_id]
                        ELSE get_initial_standing("observer")
             delta == IF outcome = "correct" THEN GainCoefficient * LogOnePlus(quality_score)
                      ELSE IF outcome = "incorrect"
                      THEN -(PenaltyCoefficient * LogOnePlus(quality_score) * PenaltyAmplifier)
                      ELSE 0
         IN UpdateContributors(Put(standings, agent_id, Clamp(current + delta)),
                               Tail(contributors), outcome, quality_score)

\* _handle_truthstate_emitted
handle_truthstate_emitted(state, signal) ==
    LET contributors == Get(signal.payload, "contributors", <<>>)
        outcome == Get(signal.payload, "outcome", "unknown")
        quality_score == Get(signal.payload, "quality_score", 50)
        policy_id == Get(signal.payload, "policy_agent_id", None)
        after == UpdateContributors(state.standings, contributors, outcome, quality_score)
        delta == IF outcome = "correct" THEN LogOnePlus(quality_score) \div 2
                 ELSE IF outcome = "incorrect" THEN -LogOnePlus(quality_score)
                 ELSE 0
    IN IF policy_id # None /\ policy_id \in DOMAIN after
       THEN [state EXCEPT !.standings = Put(after, policy_id, Clamp(after[policy_id] + delta))]
       ELSE [state EXCEPT !.standings = after]

\* _handle_penalty: max(bounds.min, current - penalty_amount)
handle_penalty(state, signal) ==
    LET agent_id == signal.object_id
        penalty_amount == Get(signal.payload, "amount", 10000)
        current == IF agent_id \in DOMAIN state.standings THEN state.standings[agent_id]
                   ELSE get_initial_standing("observer")
    IN [state EXCEPT !.standings = Put(state.standings, agent_id, Max2(BoundsMin, current - penalty_amount))]

\* _handle_endorsement: both agents get a standing if they have none
handle_endorsement(state, signal) ==
    LET first == IF signal.agent_id \in DOMAIN state.standings THEN state.standings
                 ELSE Put(state.standings, signal.agent_id, get_initial_standing("observer"))
        both == IF signal.object_id \in DOMAIN first THEN first
                ELSE Put(first, signal.object_id, get_initial_standing("observer"))
    IN [state EXCEPT !.standings = both]

\* _apply_signal
apply_signal(state, signal) ==
    CASE signal.signal_type = "AGENT_REGISTERED" -> handle_agent_registered(state, signal)
      [] signal.signal_type = "POLICY_REGISTERED" -> handle_policy_registered(state, signal)
      [] signal.signal_type = "TRUTHSTATE_EMITTED" -> handle_truthstate_emitted(state, signal)
      [] signal.signal_type = "PENALTY_APPLIED" -> handle_penalty(state, signal)
      [] signal.signal_type = "ENDORSEMENT" -> handle_endorsement(state, signal)
      [] OTHER -> state

\* sorted(signals, key=lambda s: s.time): a stable sort, equal times keep
\* the order they have in the list
RECURSIVE SortedByTime(_)
SortedByTime(signals) ==
    IF signals = <<>> THEN <<>>
    ELSE LET i == CHOOSE k \in DOMAIN signals :
                    /\ \A j \in DOMAIN signals : signals[k].time <= signals[j].time
                    /\ \A j \in 1..(k - 1) : signals[j].time # signals[k].time
             rest == [k \in 1..(Len(signals) - 1) |-> IF k < i THEN signals[k] ELSE signals[k + 1]]
         IN <<signals[i]>> \o SortedByTime(rest)

\* the for loop of reduce
RECURSIVE Fold(_, _)
Fold(state, signals) ==
    IF signals = <<>> THEN state ELSE Fold(apply_signal(state, Head(signals)), Tail(signals))

\* FlowReducer.reduce
reduce(signals) == Fold(EmptyState, SortedByTime(signals))

\* --------------------------------------------------------------------------
\* kaori-flow: store.py, core.py
\* --------------------------------------------------------------------------

\* InMemorySignalStore.append: idempotent on signal_id
append(signals, signal) ==
    IF \E i \in DOMAIN signals : signals[i].signal_id = signal.signal_id
    THEN signals
    ELSE Append(signals, signal)

\* InMemorySignalStore.get_all
get_all(signals) == SortedByTime(signals)

\* a replay that leaves out the signals at the timestamp itself
replay_before(signals, timestamp) ==
    reduce(SelectSeq(get_all(signals), LAMBDA sig : sig.time < timestamp)).standings

\* FlowCore.replay_at
replay_at(signals, timestamp) ==
    reduce(SelectSeq(get_all(signals), LAMBDA sig : sig.time <= timestamp)).standings

\* --------------------------------------------------------------------------
\* Inputs of the compiler
\* --------------------------------------------------------------------------

\* most observations in one compile call
MaxObs == 2

COMPILER_VERSION == "1.0.0"

\* valid_combos of ClaimType.validate_domain_config
valid_combos(domain) ==
    CASE domain \in {"earth", "ocean"} -> {"h3"}
      [] domain = "space" -> {"healpix"}
      [] domain = "meta" -> {"meta"}

\* a claim type contract whose truthkey block names the spatial system of its domain
ClaimTypeOf(id, domain, topic, risk) ==
    [id |-> id, version |-> 1, domain |-> domain, topic |-> topic, risk_profile |-> risk,
     spatial_system |-> CHOOSE sp \in valid_combos(domain) : TRUE,
     ai_verified_true_threshold |-> AiVerifiedTrueThreshold,
     ai_verified_false_threshold |-> AiVerifiedFalseThreshold,
     output_schema_required |-> {}]

ClaimTypes ==
    {ClaimTypeOf("earth.flood.v1", "earth", "flood", r) : r \in {"monitor", "critical"}}
    \cup {ClaimTypeOf("space.debris.v1", "space", "debris", "monitor"),
          ClaimTypeOf("meta.artifact.v1", "meta", "artifact", "monitor")}

TruthKeyOf(claim_type) ==
    CASE claim_type.domain = "earth" -> "earth:flood:h3:886142a8e7fffff:surface:2026-01-07T12:00Z"
      [] claim_type.domain = "space" -> "space:debris:healpix:1234:leo:2026-01-07T12:00Z"
      [] OTHER -> "meta:artifact:meta:abc123def45678901234567890123456:none:2026-01-07T12:00Z"

\* water_level in hundredths of a metre
ObservationPool ==
    {[observation_id |-> "obs-1", reporter_id |-> "agent-001",
      payload |-> [severity |-> "high", water_level |-> 150, valid |-> TRUE],
      evidence_refs |-> <<"gs://kaori-evidence/photo2.jpg", "gs://kaori-evidence/photo1.jpg">>],
     [observation_id |-> "obs-2", reporter_id |-> "agent-002",
      payload |-> [severity |-> "low", water_level |-> 50, valid |-> FALSE],
      evidence_refs |-> <<"gs://kaori-evidence/photo1.jpg">>],
     [observation_id |-> "obs-3", reporter_id |-> "agent-003",
      payload |-> [severity |-> "moderate"],
      evidence_refs |-> <<>>]}

\* the lists of distinct observations, in every order, of at most MaxObs elements
ObservationLists ==
    UNION {{s \in [1..n -> ObservationPool] : \A i, j \in 1..n : i # j => s[i] # s[j]} : n \in 0..MaxObs}

AgentTrustOf(agent_id, power) ==
    [agent_id |-> agent_id, effective_power |-> power, standing |-> power,
     derived_class |-> "silver", flags |-> {}]

EqualTrusts == [a \in {"agent-001", "agent-002"} |-> AgentTrustOf(a, 150)]

UnequalTrusts == [a \in {"agent-001", "agent-002"} |-> AgentTrustOf(a, IF a = "agent-001" THEN 100 ELSE 150)]

SnapshotTime == [second |-> 0, microsecond |-> 0, tzinfo |-> "utc", utcoffset |-> 0]

\* two snapshots made by TrustSnapshot.create, and one whose agent_trusts were
\* changed after its hash was computed
TrustSnapshots ==
    {TrustSnapshotCreate("snapshot-001", SnapshotTime, EqualTrusts),
     TrustSnapshotCreate("snapshot-002", SnapshotTime, UnequalTrusts),
     [TrustSnapshotCreate("snapshot-003", SnapshotTime, EqualTrusts) EXCEPT !.agent_trusts = UnequalTrusts]}

\* ai_scores in units of 10^-4; <<>> is "not given"
AiScoreLists == {<<>>, <<9000, 8800>>, <<1000, 9000, 5000>>, <<1500>>}

\* compile_time: not given, naive, 12:00:00, 12:00:00.5, 12:05:00
CompileTimes ==
    {Nil,
     [second |-> 0, microsecond |-> 0, tzinfo |-> "none", utcoffset |-> 0],
     [second |-> 0, microsecond |-> 0, tzinfo |-> "utc", utcoffset |-> 0],
     [second |-> 0, microsecond |-> 500000, tzinfo |-> "utc", utcoffset |-> 0],
     [second |-> 300, microsecond |-> 0, tzinfo |-> "utc", utcoffset |-> 0]}

CompilerVersions == {COMPILER_VERSION, "1.0.1"}

Inputs ==
    {[claim_type |-> ct, truth_key |-> TruthKeyOf(ct), observations |-> obs, trust_snapshot |-> snap,
      policy_version |-> "policy.1", compiler_version |-> cv, compile_time |-> t,
      ai_scores |-> ai, votes |-> <<>>] :
        ct \in ClaimTypes, obs \in ObservationLists, snap \in TrustSnapshots,
        cv \in CompilerVersions, t \in CompileTimes, ai \in AiScoreLists}

\* the same multiset of observations in some order
IsPermutation(s, t) ==
    /\ Len(s) = Len(t)
    /\ Range(s) = Range(t)

\* a second call on the inputs of a first: the same inputs, the same observations
\* in another order, or another compile_time and/or compiler_version
Variants(in) ==
    {[in EXCEPT !.observations = obs] : obs \in {o \in ObservationLists : IsPermutation(o, in.observations)}}
    \cup {[in EXCEPT !.compile_time = t, !.compiler_version = cv] : t \in CompileTimes, cv \in CompilerVersions}

\* --------------------------------------------------------------------------
\* The compiler and its callers
\* --------------------------------------------------------------------------

\* readings of the host clock (datetime.now(timezone.utc)): 12:00:07, 12:00:09
WallClock ==
    {[second |-> 7, microsecond |-> 0, tzinfo |-> "utc", utcoffset |-> 0],
     [second |-> 9, microsecond |-> 0, tzinfo |-> "utc", utcoffset |-> 0]}

\* one call of compile_truth_state, made when the host clock read `at`
Call(in) == [in |-> in, at |-> clock, out |-> compile_truth_state(in)]

InitTruth ==
    /\ clock = CHOOSE c \in WallClock : \A d \in WallClock : c.second <= d.second
    /\ prev = Nil
    /\ cur = Nil
    /\ held = Nil
    /\ origin = "none"
    /\ tamper = None

\* a caller compiles some inputs
Compile ==
    /\ cur = Nil
    /\ \E in \in Inputs : cur' = Call(in)
    /\ prev' = Nil
    /\ UNCHANGED <<clock, held, origin, tamper, flowVars, engineVars, consensusVars, callVars>>

\* the caller drops its results and starts over
Forget ==
    /\ cur # Nil
    /\ cur' = Nil
    /\ prev' = Nil
    /\ UNCHANGED <<clock, held, origin, tamper, flowVars, engineVars, consensusVars, callVars>>

\* a caller compiles again, on a variant of the inputs of the last call
Recompile ==
    /\ cur # Nil
    /\ prev = Nil
    /\ \E in \in Variants(cur.in) : cur' = Call(in)
    /\ prev' = cur
    /\ UNCHANGED <<clock, held, origin, tamper, flowVars, engineVars, consensusVars, callVars>>

\* time passes on the host
Tick ==
    /\ \E c \in WallClock \ {clock} : clock' = c
    /\ UNCHANGED <<prev, cur, held, origin, tamper, flowVars, engineVars, consensusVars, callVars>>

InitFlow ==
    /\ store = <<>>
    /\ standings_cache = Nil
    /\ cache_valid = FALSE
    /\ replayed = Nil
    /\ reduced = Nil

InitEngine ==
    /\ truth_state = Nil
    /\ now = 0

InitConsensus ==
    tally = Nil

InitCalls ==
    /\ delta_call = Nil
    /\ trust_call = Nil
    /\ bucket_call = Nil
    /\ offered = Nil
    /\ power_call = Nil

Init == InitTruth /\ InitFlow /\ InitEngine /\ InitConsensus /\ InitCalls

Next == Compile \/ Recompile \/ Forget \/ Tick

Spec == Init /\ [][Next]_vars

\* --------------------------------------------------------------------------
\* Callers that build the observations and pass votes, claim types and truth
\* keys of every kind
\* --------------------------------------------------------------------------

\* Observation.validate_reported_at without the rejection of naive values
validate_reported_at_lenient(v) == v

\* Observation.validate_reported_at: ensure_utc(v), which raises
\* NaiveDatetimeError (Nil here) on a naive value
validate_reported_at(v) == IF IsNaive(v) THEN Nil ELSE ensure_utc(v)

\* Observation(...): the validated object, or Nil when the validator raised
NewObservation(raw) ==
    IF validate_reported_at(raw.reported_at) = Nil THEN Nil
    ELSE [raw EXCEPT !.reported_at = validate_reported_at(raw.reported_at)]

\* reported_at of the submitted observations: naive 12:00:00, and 14:00:00+02:00
ReportedTimes ==
    {[second |-> 0, microsecond |-> 0, tzinfo |-> "none", utcoffset |-> 0],
     [second |-> 7200, microsecond |-> 0, tzinfo |-> "+02:00", utcoffset |-> 7200]}

RawObservations == {o @@ [reported_at |-> t] : o \in ObservationPool, t \in ReportedTimes}

\* the lists of raw observations of distinct ids, at most MaxObs long
RawObservationLists ==
    UNION {{s \in [1..n -> RawObservations] :
               \A i, j \in 1..n : i # j => s[i].observation_id # s[j].observation_id} : n \in 1..MaxObs}

\* domain and spatial_system segments of a truth key string
TruthKeySegments(truth_key) ==
    CASE truth_key = "earth:flood:h3:886142a8e7fffff:surface:2026-01-07T12:00Z" ->
            [domain |-> "earth", spatial_system |-> "h3"]
      [] truth_key = "space:debris:healpix:1234:leo:2026-01-07T12:00Z" ->
            [domain |-> "space", spatial_system |-> "healpix"]
      [] OTHER -> [domain |-> "meta", spatial_system |-> "meta"]

\* contracts of the model, and the earth and space contracts with the spatial
\* system of the other
SubmittedClaimTypes ==
    ClaimTypes
    \cup {[ClaimTypeOf("earth.flood.v1", "earth", "flood", "monitor") EXCEPT !.spatial_system = "healpix"],
          [ClaimTypeOf("space.debris.v1", "space", "debris", "monitor") EXCEPT !.spatial_system = "h3"]}

\* votes passed to the compiler: none, ratifications that reach the finalize
\* threshold, and two rejections followed by an authority override
SubmittedVoteLists ==
    {<<>>,
     [i \in 1..3 |-> [voter_id |-> "agent-003", voter_standing |-> 500, vote_type |-> "RATIFY"]],
     <<[voter_id |-> "agent-001", voter_standing |-> 50, vote_type |-> "REJECT"],
       [voter_id |-> "agent-001", voter_standing |-> 50, vote_type |-> "REJECT"],
       [voter_id |-> "agent-004", voter_standing |-> 500, vote_type |-> "OVERRIDE"]>>,
     <<[voter_id |-> "agent-001", voter_standing |-> 50, vote_type |-> "REJECT"]>>}

\* the ai_scores callers submit: those of AiScoreLists, scores whose variance
\* is 0.15000049, and scores of variance 0.162 and mean 0.18
SubmittedAiScoreLists == AiScoreLists \cup {<<0, 62, 6739>>, <<0, 0, 0, 0, 9000>>}

\* what callers submit: the arguments of compile_truth_state, the observations
\* still to be built
Submissions ==
    {[claim_type |-> ct, truth_key |-> key, observations |-> raws,
      trust_snapshot |-> TrustSnapshotCreate("snapshot-001", SnapshotTime, EqualTrusts),
      policy_version |-> "policy.1", compiler_version |-> COMPILER_VERSION,
      compile_time |-> SnapshotTime, ai_scores |-> ai, votes |-> votes] :
        ct \in SubmittedClaimTypes, key \in {TruthKeyOf(c) : c \in ClaimTypes},
        raws \in RawObservationLists, ai \in SubmittedAiScoreLists, votes \in SubmittedVoteLists}

\* the caller builds each Observation and calls compile_truth_state; a
\* validator that raises ends the call before the compiler is reached
BuildAndCompile(call) ==
    IF \E i \in DOMAIN call.observations : NewObservation(call.observations[i]) = Nil
    THEN [kind |-> "ValidationError", message |-> "Naive datetime not allowed", used_trust |-> FALSE]
    ELSE compile_truth_state(
            [call EXCEPT !.observations = [i \in DOMAIN call.observations |->
                                                NewObservation(call.observations[i])]])

\* a caller submits observations, votes, a claim type and a truth key
Submit ==
    /\ cur = Nil
    /\ \E call \in Submissions : cur' = [in |-> call, at |-> clock, out |-> BuildAndCompile(call)]
    /\ prev' = Nil
    /\ UNCHANGED <<clock, held, origin, tamper, flowVars, engineVars, consensusVars, callVars>>

NextSubmit == Submit \/ Forget

SpecSubmit == Init /\ [][NextSubmit]_vars

\* --------------------------------------------------------------------------
\* Signing: a caller compiles a TruthState, signs it, and the object may be
\* changed before it is verified
\* --------------------------------------------------------------------------

SignTime == [second |-> 60, microsecond |-> 0, tzinfo |-> "utc", utcoffset |-> 0]

\* the digest of some other content
OtherDigest == canonical_hash([content |-> "other"])

\* One change to one field of a TruthState, as <<field, changed state>>: every
\* field outside the security block, and the stored semantic_hash, state_hash
\* and signature.
FieldChanges(ts) ==
    {<<"truthkey", [ts EXCEPT !.truthkey = "earth:flood:h3:886142a8e7fffff:surface:2026-01-07T13:00Z"]>>,
     <<"claim_type", [ts EXCEPT !.claim_type = "ocean.coral.v1"]>>,
     <<"claim_type_hash", [ts EXCEPT !.claim_type_hash = OtherDigest]>>,
     <<"status", [ts EXCEPT !.status = "VERIFIED_TRUE"]>>,
     <<"status", [ts EXCEPT !.status = "VERIFIED_FALSE"]>>,
     <<"verification_basis", [ts EXCEPT !.verification_basis = "HUMAN_CONSENSUS"]>>,
     <<"claim", [ts EXCEPT !.claim = [observation_count |-> 99, network_trust |-> 0]]>>,
     <<"ai_confidence", [ts EXCEPT !.ai_confidence = 9900000]>>,
     <<"confidence", [ts EXCEPT !.confidence = 9900000]>>,
     <<"confidence_breakdown", [ts EXCEPT !.confidence_breakdown.final_score = 9900000]>>,
     <<"transparency_flags", [ts EXCEPT !.transparency_flags = <<"REVIEW_TIMEOUT">>]>>,
     <<"compile_inputs.observation_ids", [ts EXCEPT !.compile_inputs.observation_ids = <<"obs-4">>]>>,
     <<"compile_inputs.claim_type_id", [ts EXCEPT !.compile_inputs.claim_type_id = "ocean.coral.v1"]>>,
     <<"compile_inputs.claim_type_hash", [ts EXCEPT !.compile_inputs.claim_type_hash = OtherDigest]>>,
     <<"compile_inputs.policy_version", [ts EXCEPT !.compile_inputs.policy_version = "policy.2"]>>,
     <<"compile_inputs.compiler_version", [ts EXCEPT !.compile_inputs.compiler_version = "9.9.9"]>>,
     <<"compile_inputs.trust_snapshot_hash", [ts EXCEPT !.compile_inputs.trust_snapshot_hash = OtherDigest]>>,
     <<"compile_inputs.compile_time", [ts EXCEPT !.compile_inputs.compile_time = SignTime]>>,
     <<"evidence_refs", [ts EXCEPT !.evidence_refs = <<"gs://kaori-evidence/photo2.jpg">>]>>,
     <<"observation_ids", [ts EXCEPT !.observation_ids = <<"obs-4">>]>>,
     <<"consensus", [ts EXCEPT !.consensus = [score |-> 15, finalized |-> TRUE]]>>,
     <<"security.semantic_hash", [ts EXCEPT !.security.semantic_hash = OtherDigest]>>,
     <<"security.state_hash", [ts EXCEPT !.security.state_hash = OtherDigest]>>,
     <<"security.signature", [ts EXCEPT !.security.signature = sign_with_hmac(OtherDigest)]>>}

\* the caller compiles and keeps the TruthState
CompileHeld ==
    /\ held = Nil
    /\ \E in \in Inputs :
          /\ compile_truth_state(in).kind = "TruthState"
          /\ held' = compile_truth_state(in).ts
    /\ origin' = "compiled"
    /\ tamper' = None
    /\ UNCHANGED <<clock, prev, cur, flowVars, engineVars, consensusVars, callVars>>

\* sign_truth_state on the held object (as compiled, or after a change)
Sign ==
    /\ origin \in {"compiled", "tampered"}
    /\ held' = sign_truth_state(held, SignTime, "local_dev_key")
    /\ origin' = "signed"
    /\ UNCHANGED <<clock, prev, cur, tamper, flowVars, engineVars, consensusVars, callVars>>

\* one field of the signed object is changed to another value
Tamper ==
    /\ origin = "signed"
    /\ tamper = None
    /\ \E c \in FieldChanges(held) :
          /\ c[2] # held
          /\ held' = c[2]
          /\ tamper' = c[1]
    /\ origin' = "tampered"
    /\ UNCHANGED <<clock, prev, cur, flowVars, engineVars, consensusVars, callVars>>

\* the caller drops the object
Discard ==
    /\ held # Nil
    /\ held' = Nil
    /\ origin' = "none"
    /\ tamper' = None
    /\ UNCHANGED <<clock, prev, cur, flowVars, engineVars, consensusVars, callVars>>

NextSign == CompileHeld \/ Sign \/ Tamper \/ Discard

SpecSign == Init /\ [][NextSign]_vars

\* --------------------------------------------------------------------------
\* Flow: signals are emitted to a FlowCore; then its log is inspected once,
\* by a replay_at or by a direct reduce of its signals in some order
\* --------------------------------------------------------------------------

\* most signals in the store
MaxLog == 3

\* Signal.compute_id: SHA-256 of the canonical content
compute_id(signal_type, time, agent_id, object_id, payload) ==
    canonical_hash([signal_type |-> signal_type, time |-> time, agent_id |-> agent_id,
                    object_id |-> object_id, payload |-> payload])

\* Signal(...) with no signal_id given: model_post_init computes it
SignalOf(signal_type, time, agent_id, object_id, payload) ==
    [signal_id |-> compute_id(signal_type, time, agent_id, object_id, payload),
     signal_type |-> signal_type, time |-> time, agent_id |-> agent_id,
     object_id |-> object_id, payload |-> payload]

\* the signals of the model; times are whole seconds, amounts thousandths
SignalPool ==
    {SignalOf("AGENT_REGISTERED", 1, "system", "agent-x", [role |-> "expert"]),
     SignalOf("PENALTY_APPLIED", 1, "system", "agent-x", [amount |-> 300000]),
     SignalOf("PENALTY_APPLIED", 2, "system", "agent-x", [amount |-> -2000000]),
     SignalOf("POLICY_REGISTERED", 1, "system", "policy-1", [version |-> "1.0.0"]),
     SignalOf("TRUTHSTATE_EMITTED", 2, "compiler", "truth-1",
              [contributors |-> <<"agent-x">>, outcome |-> "correct", quality_score |-> 50,
               policy_agent_id |-> "policy-1"]),
     SignalOf("TRUTHSTATE_EMITTED", 1, "compiler", "truth-2",
              [contributors |-> <<"agent-x", "agent-y">>, outcome |-> "incorrect"]),
     SignalOf("ENDORSEMENT", 2, "agent-y", "agent-x", [weight |-> 1]),
     SignalOf("OBSERVATION_SUBMITTED", 3, "agent-y", "probe-1", [note |-> "seen"])}

\* the timestamps a replay is asked for
ReplayTimes == 0..3

\* the orderings of a list of distinct signals
Orderings(signals) ==
    {o \in [DOMAIN signals -> Range(signals)] : Range(o) = Range(signals)}

\* FlowCore.emit: store.append(signal), cache invalidated
Emit ==
    /\ replayed = Nil
    /\ reduced = Nil
    /\ Len(store) < MaxLog
    /\ \E sig \in SignalPool : store' = append(store, sig)
    /\ cache_valid' = FALSE
    /\ UNCHANGED <<truthVars, engineVars, consensusVars, callVars, standings_cache, replayed, reduced>>

\* FlowCore.get_standing: _get_all_standings fills the cache unless it is valid
GetStanding ==
    /\ IF cache_valid /\ standings_cache # Nil
       THEN UNCHANGED <<standings_cache, cache_valid>>
       ELSE /\ standings_cache' = reduce(get_all(store)).standings
            /\ cache_valid' = TRUE
    /\ UNCHANGED <<truthVars, engineVars, consensusVars, callVars, store, replayed, reduced>>

\* FlowCore.invalidate_cache
InvalidateCache ==
    /\ cache_valid' = FALSE
    /\ standings_cache' = Nil
    /\ UNCHANGED <<truthVars, engineVars, consensusVars, callVars, store, replayed, reduced>>

\* FlowCore.replay_at(timestamp)
ReplayAt ==
    /\ replayed = Nil
    /\ reduced = Nil
    /\ \E t \in ReplayTimes : replayed' = [at |-> t, standings |-> replay_at(store, t)]
    /\ UNCHANGED <<truthVars, engineVars, consensusVars, callVars, store, standings_cache, cache_valid, reduced>>

\* FlowReducer.reduce called on the signals of the store in some order
Reduce ==
    /\ replayed = Nil
    /\ reduced = Nil
    /\ \E o \in Orderings(store) : reduced' = [signals |-> o, state |-> reduce(o)]
    /\ UNCHANGED <<truthVars, engineVars, consensusVars, callVars, store, standings_cache, cache_valid, replayed>>

\* a new FlowCore on an empty store
Restart ==
    /\ store # <<>>
    /\ store' = <<>>
    /\ standings_cache' = Nil
    /\ cache_valid' = FALSE
    /\ replayed' = Nil
    /\ reduced' = Nil
    /\ UNCHANGED <<truthVars, engineVars, consensusVars, callVars>>

NextFlow == Emit \/ GetStanding \/ InvalidateCache \/ ReplayAt \/ Reduce \/ Restart

SpecFlow == Init /\ [][NextFlow]_vars

\* --------------------------------------------------------------------------
\* core/engine.py, core/timeout_handler.py: the life cycle of one truth state.
\* The engine's confidence recomputation (core.confidence) writes confidence,
\* confidence_breakdown and a low-confidence flag only; it is left out.
\* --------------------------------------------------------------------------

\* latest reading of the engine's clock, in hours
MaxHours == 36

\* most votes cast on the truth state
MaxVotes == 3

\* most observations processed for the truth state
MaxObservations == 2

\* ConsensusModel.finalize_threshold and reject_threshold
FinalizeThreshold == 15

RejectThreshold == -10

\* DisputeResolutionConfig.timeout["peer_review"] (PT12H) and
\* TemporalDecayConfig.max_validity (P1D), in hours
ReviewTimeout == 12

MaxValidity == 24

\* ClaimType.get_vote_weight: consensus_model.weighted_roles.get(standing, 1)
get_vote_weight(standing) ==
    CASE standing = "bronze" -> 1
      [] standing = "silver" -> 3
      [] standing = "expert" -> 7
      [] standing = "authority" -> 10
      [] OTHER -> 1

\* the terminal statuses
TerminalStatuses == {"VERIFIED_TRUE", "VERIFIED_FALSE", "INCONCLUSIVE", "EXPIRED"}

\* flags.append(flag) unless it is there
WithFlag(flags, flag) == IF flag \in Range(flags) THEN flags ELSE Append(flags, flag)

\* crud.create_truth_state through _get_or_create_truth_state
NewTruthState(risk_profile) ==
    [risk_profile |-> risk_profile, status |-> "PENDING", verification_basis |-> None,
     transparency_flags |-> <<>>, ai_confidence |-> 0, votes |-> <<>>, score |-> 0,
     finalized |-> FALSE, observation_count |-> 0, created_at |-> now, updated_at |-> now]

\* _apply_ai_validation; final_confidence in hundredths
apply_ai_validation(ts, final_confidence) ==
    LET c == final_confidence * 100000
        scored == [ts EXCEPT !.ai_confidence = final_confidence]
    IN IF ts.risk_profile = "monitor"
       THEN IF c >= AiVerifiedTrueThreshold
            THEN [scored EXCEPT !.status = "VERIFIED_TRUE", !.verification_basis = "AI_AUTOVALIDATION"]
            ELSE IF c <= AiVerifiedFalseThreshold
            THEN [scored EXCEPT !.status = "VERIFIED_FALSE", !.verification_basis = "AI_AUTOVALIDATION"]
            ELSE [scored EXCEPT !.status = "INVESTIGATING"]
       ELSE [scored EXCEPT !.status = "PENDING_HUMAN_REVIEW",
                           !.transparency_flags =
                               WithFlag(@, IF c >= AiVerifiedTrueThreshold THEN "AI_RECOMMENDS_TRUE"
                                           ELSE IF c <= AiVerifiedFalseThreshold THEN "AI_RECOMMENDS_FALSE"
                                           ELSE "AWAITING_HUMAN_CONSENSUS")]

\* the score loop of apply_vote
RECURSIVE VoteScore(_)
VoteScore(votes) ==
    IF votes = <<>> THEN 0
    ELSE LET v == Head(votes)
             weight == get_vote_weight(v.voter_standing)
         IN (IF v.vote_type = "RATIFY" THEN weight
             ELSE IF v.vote_type = "REJECT" THEN -weight
             ELSE 0) + VoteScore(Tail(votes))

\* the final_confidence of an AIValidationResult, in hundredths
AiResults == {90, 50, 10}

\* the votes of the model
VotePool ==
    {[vote_type |-> "RATIFY", voter_standing |-> "authority"],
     [vote_type |-> "RATIFY", voter_standing |-> "expert"],
     [vote_type |-> "REJECT", voter_standing |-> "authority"]}

\* KaoriEngine.process_observation, with or without an AI result
ProcessObservation ==
    /\ \E risk \in {"monitor", "critical"}, ai \in AiResults \cup {-1} :
          LET got == IF truth_state = Nil THEN NewTruthState(risk) ELSE truth_state
              seen == [got EXCEPT !.observation_count = @ + 1]
              next == IF ai # -1 THEN apply_ai_validation(seen, ai)
                      ELSE IF seen.risk_profile = "critical" /\ seen.status = "PENDING"
                      THEN [seen EXCEPT !.status = "PENDING_HUMAN_REVIEW",
                                        !.transparency_flags = WithFlag(@, "AWAITING_HUMAN_CONSENSUS")]
                      ELSE seen
          IN /\ got.observation_count < MaxObservations
             /\ truth_state' = [next EXCEPT !.updated_at = now]
    /\ UNCHANGED <<truthVars, flowVars, consensusVars, callVars, now>>

\* KaoriEngine.apply_vote
ApplyVote ==
    /\ truth_state # Nil
    /\ Len(truth_state.votes) < MaxVotes
    /\ \E vote \in VotePool :
          LET votes == Append(truth_state.votes, vote)
              score == VoteScore(votes)
              voted == [truth_state EXCEPT !.votes = votes, !.score = score, !.updated_at = now]
          IN truth_state' =
                IF score >= FinalizeThreshold
                THEN [voted EXCEPT !.finalized = TRUE, !.status = "VERIFIED_TRUE",
                                   !.verification_basis = "HUMAN_CONSENSUS"]
                ELSE IF score <= RejectThreshold
                THEN [voted EXCEPT !.finalized = TRUE, !.status = "VERIFIED_FALSE",
                                   !.verification_basis = "HUMAN_CONSENSUS"]
                ELSE voted
    /\ UNCHANGED <<truthVars, flowVars, consensusVars, callVars, now>>

\* process_stale_reviews: a run of the timeout job over the truth state
ProcessStaleReviews ==
    /\ truth_state # Nil
    /\ truth_state.status \in {"PENDING_HUMAN_REVIEW", "INVESTIGATING"}
    /\ truth_state' =
          IF now - truth_state.created_at > MaxValidity
          THEN [truth_state EXCEPT !.status = "EXPIRED", !.verification_basis = "TIMEOUT_DEFAULT",
                                   !.updated_at = now]
          ELSE IF now - truth_state.updated_at > ReviewTimeout
          THEN [truth_state EXCEPT !.status = "INCONCLUSIVE",
                                   !.verification_basis = "TIMEOUT_INCONCLUSIVE",
                                   !.updated_at = now,
                                   !.transparency_flags = WithFlag(@, "REVIEW_TIMEOUT")]
          ELSE truth_state
    /\ UNCHANGED <<truthVars, flowVars, consensusVars, callVars, now>>

\* time passes on the engine's host, one review timeout between two readings
Advance ==
    /\ now < MaxHours
    /\ now' = now + ReviewTimeout
    /\ UNCHANGED <<truthVars, flowVars, consensusVars, callVars, truth_state>>

NextEngine == ProcessObservation \/ ApplyVote \/ ProcessStaleReviews \/ Advance

SpecEngine == Init /\ [][NextEngine]_vars

\* --------------------------------------------------------------------------
\* kaori_truth/consensus.py and core/consensus.py: compute_consensus.
\* Weights and scores of kaori_truth are floats, kept in thousandths.
\* --------------------------------------------------------------------------

\* most votes in one compute_consensus call
MaxBallot == 3

\* the standing from which an OVERRIDE counts (kaori_truth/consensus.py)
OverrideThreshold == 500

\* consensus_config.get("override_allowed_roles", ["authority"])
override_standings == {"authority"}

\* finalize_threshold 15 and reject_threshold -10, in thousandths
FinalizeThresholdMilli == FinalizeThreshold * 1000

RejectThresholdMilli == RejectThreshold * 1000

\* weight = 1.0 + math.log2(1 + standing / 10.0), in thousandths
StandingWeight(standing) ==
    CASE standing = 10 -> 2000
      [] standing = 50 -> 3585
      [] standing = 499 -> 6670
      [] standing = 500 -> 6672

\* int(score): truncation towards zero of a score in thousandths
IntOf(score) == IF score >= 0 THEN score \div 1000 ELSE -((-score) \div 1000)

\* ((ratify_count - reject_count) / total_votes + 1) / 2, in thousandths
PositiveRatio(ratify_count, reject_count) ==
    IF ratify_count + reject_count > 0
    THEN RoundDiv((ratify_count - reject_count + ratify_count + reject_count) * 500,
                  ratify_count + reject_count)
    ELSE 500

\* ConsensusRecord(...)
ConsensusRecord(votes, score, finalized, finalize_reason, positive_ratio) ==
    [votes |-> votes, score |-> score, finalized |-> finalized,
     finalize_reason |-> finalize_reason, positive_ratio |-> positive_ratio]

\* the end of kaori_truth compute_consensus, after the loop over the votes
TruthConsensusClose(votes, score, ratify_count, reject_count) ==
    ConsensusRecord(votes, IntOf(score),
                    score >= FinalizeThresholdMilli \/ score <= RejectThresholdMilli,
                    IF score >= FinalizeThresholdMilli THEN [reason |-> "THRESHOLD_REACHED", score |-> score]
                    ELSE IF score <= RejectThresholdMilli THEN [reason |-> "REJECT_THRESHOLD", score |-> score]
                    ELSE Nil,
                    PositiveRatio(ratify_count, reject_count))

\* the loop of kaori_truth compute_consensus from vote i on; an OVERRIDE of
\* enough standing returns from inside the loop
RECURSIVE TruthConsensusLoop(_, _, _, _, _, _)
TruthConsensusLoop(votes, i, score, ratify_count, reject_count, threshold) ==
    IF i > Len(votes) THEN TruthConsensusClose(votes, score, ratify_count, reject_count)
    ELSE LET vote == votes[i]
             weight == StandingWeight(vote.voter_standing)
         IN IF vote.vote_type = "RATIFY"
            THEN TruthConsensusLoop(votes, i + 1, score + weight, ratify_count + 1, reject_count, threshold)
            ELSE IF vote.vote_type = "REJECT"
            THEN TruthConsensusLoop(votes, i + 1, score - weight, ratify_count, reject_count + 1, threshold)
            ELSE IF vote.vote_type = "OVERRIDE" /\ vote.voter_standing >= threshold
            THEN ConsensusRecord(votes, IntOf(score), TRUE,
                                 [reason |-> "AUTHORITY_OVERRIDE", by |-> vote.voter_id], 1000)
            ELSE TruthConsensusLoop(votes, i + 1, score, ratify_count, reject_count, threshold)

\* kaori_truth compute_consensus with an OVERRIDE counting only above the threshold
compute_consensus_above(votes) == TruthConsensusLoop(votes, 1, 0, 0, 0, OverrideThreshold + 1)

\* kaori_truth.consensus.compute_consensus
compute_consensus(votes) == TruthConsensusLoop(votes, 1, 0, 0, 0, OverrideThreshold)

\* DEFAULT_VOTE_VALUES
vote_values(vote_type) ==
    CASE vote_type = "RATIFY" -> 1
      [] vote_type = "REJECT" -> -1
      [] OTHER -> 0

\* whether the loop of core compute_consensus skips the vote as an override
IsOverride(vote) == vote.vote_type = "OVERRIDE" /\ vote.voter_standing \in override_standings

\* the votes the loop of core compute_consensus processes as normal votes
NormalVotes(votes) == SelectSeq(votes, LAMBDA v : ~IsOverride(v))

RECURSIVE CoreScore(_)
CoreScore(votes) ==
    IF votes = <<>> THEN 0
    ELSE get_vote_weight(Head(votes).voter_standing) * vote_values(Head(votes).vote_type)
         + CoreScore(Tail(votes))

CountOf(votes, vote_type) == Len(SelectSeq(votes, LAMBDA v : v.vote_type = vote_type))

\* core.consensus.compute_consensus; override_vote is the last override of the list
core_compute_consensus(votes) ==
    LET normal == NormalVotes(votes)
        overrides == SelectSeq(votes, IsOverride)
        score == CoreScore(normal)
    IN ConsensusRecord(votes, score,
                       overrides # <<>> \/ score >= FinalizeThreshold \/ score <= RejectThreshold,
                       IF overrides # <<>>
                       THEN [reason |-> "AUTHORITY_OVERRIDE", by |-> overrides[Len(overrides)].voter_id]
                       ELSE IF score >= FinalizeThreshold THEN [reason |-> "THRESHOLD_REACHED", score |-> score]
                       ELSE IF score <= RejectThreshold THEN [reason |-> "REJECT_THRESHOLD", score |-> score]
                       ELSE Nil,
                       PositiveRatio(CountOf(normal, "RATIFY"), CountOf(normal, "REJECT")))

\* core.consensus.get_consensus_outcome
get_consensus_outcome(consensus) ==
    IF ~consensus.finalized THEN None
    ELSE IF consensus.finalize_reason # Nil /\ consensus.finalize_reason.reason = "AUTHORITY_OVERRIDE"
    THEN "VERIFIED_TRUE"
    ELSE IF consensus.score >= FinalizeThreshold THEN "VERIFIED_TRUE"
    ELSE IF consensus.score <= RejectThreshold THEN "VERIFIED_FALSE"
    ELSE None

\* vote dicts of kaori_truth: voter_standing is the numeric standing
TruthVotePool ==
    {[voter_id |-> "agent-001", voter_standing |-> 50, vote_type |-> "REJECT"],
     [voter_id |-> "agent-002", voter_standing |-> 500, vote_type |-> "REJECT"],
     [voter_id |-> "agent-003", voter_standing |-> 500, vote_type |-> "RATIFY"],
     [voter_id |-> "agent-004", voter_standing |-> 500, vote_type |-> "OVERRIDE"],
     [voter_id |-> "agent-005", voter_standing |-> 499, vote_type |-> "OVERRIDE"]}

\* Vote objects of core: voter_standing is the Standing class
CoreVotePool ==
    {[voter_id |-> "agent-001", voter_standing |-> "expert", vote_type |-> "REJECT"],
     [voter_id |-> "agent-002", voter_standing |-> "authority", vote_type |-> "REJECT"],
     [voter_id |-> "agent-003", voter_standing |-> "authority", vote_type |-> "RATIFY"],
     [voter_id |-> "agent-004", voter_standing |-> "authority", vote_type |-> "OVERRIDE"],
     [voter_id |-> "agent-005", voter_standing |-> "expert", vote_type |-> "OVERRIDE"],
     [voter_id |-> "agent-006", voter_standing |-> "bronze", vote_type |-> "CHALLENGE"]}

\* the vote lists of at most MaxBallot votes, in every order
VoteLists(pool) == UNION {[1..n -> pool] : n \in 0..MaxBallot}

\* a caller computes the consensus of kaori_truth vote dicts
ComputeTruthConsensus ==
    /\ \E votes \in VoteLists(TruthVotePool) :
          tally' = [lib |-> "kaori_truth", votes |-> votes, record |-> compute_consensus(votes)]
    /\ UNCHANGED <<truthVars, flowVars, engineVars, callVars>>

\* a caller computes the consensus of core Vote objects
ComputeCoreConsensus ==
    /\ \E votes \in VoteLists(CoreVotePool) :
          tally' = [lib |-> "core", votes |-> votes, record |-> core_compute_consensus(votes)]
    /\ UNCHANGED <<truthVars, flowVars, engineVars, callVars>>

NextConsensus == ComputeTruthConsensus \/ ComputeCoreConsensus

SpecConsensus == Init /\ [][NextConsensus]_vars

\* --------------------------------------------------------------------------
\* The producers of truth states side by side: a truth state comes from one
\* call of the compiler, or from the engine and its timeout job
\* --------------------------------------------------------------------------

\* the compiler is called, the engine holding nothing
CompilerProduces ==
    /\ truth_state = Nil
    /\ now = 0
    /\ (Compile \/ Forget)

\* the engine works on its truth state, no compiler result being held
EngineProduces ==
    /\ cur = Nil
    /\ NextEngine

NextProducers == CompilerProduces \/ EngineProduces

SpecProducers == Init /\ [][NextProducers]_vars

\* --------------------------------------------------------------------------
\* Standing updates: one contributor is credited for a correct outcome and,
\* from the same standing, penalised for an incorrect one
\* --------------------------------------------------------------------------

\* the standings tried are the multiples of bounds.max / MaxStandingSteps
MaxStandingSteps == 40

TrialStandings == {k * (BoundsMax \div MaxStandingSteps) : k \in 0..MaxStandingSteps}

QualityScores == {0, 50, 80}

\* a TRUTHSTATE_EMITTED signal that names one contributor
OutcomeSignal(outcome, quality_score) ==
    SignalOf("TRUTHSTATE_EMITTED", 1, "compiler", "truth-1",
             [contributors |-> <<"agent-x">>, outcome |-> outcome, quality_score |-> quality_score])

\* the contributor's standing after _handle_truthstate_emitted
StandingAfter(standing, outcome, quality_score) ==
    handle_truthstate_emitted([standings |-> ("agent-x" :> standing),
                               agent_roles |-> ("agent-x" :> "observer")],
                              OutcomeSignal(outcome, quality_score)).standings["agent-x"]

\* the reducer handles a correct and an incorrect outcome of one quality score
ApplyOutcomes ==
    /\ \E standing \in TrialStandings, q \in QualityScores :
          delta_call' = [standing |-> standing, quality_score |-> q,
                         correct |-> StandingAfter(standing, "correct", q),
                         incorrect |-> StandingAfter(standing, "incorrect", q)]
    /\ UNCHANGED <<truthVars, flowVars, engineVars, consensusVars,
                   trust_call, bucket_call, offered, power_call>>

NextOutcomes == ApplyOutcomes

SpecOutcomes == Init /\ [][NextOutcomes]_vars

\* --------------------------------------------------------------------------
\* kaori-flow: trust.py. Standings and effective trust in thousandths, vouch
\* edge weights in thousandths, signal times and clock readings in seconds
\* --------------------------------------------------------------------------

\* SaturationConfig.max_standing
MaxStanding == 1000000

\* ClaimtypeCollaboratorVouchConfig: per_vouch_fraction, max_bonus_fraction
PerVouchPercent == 5

MaxBonusPercent == 15

\* SelfDealingConfig.discount_factor
DiscountPercent == 50

\* ProbeCreatorBonusConfig: min_creator_standing, bonus_fraction
MinCreatorStanding == 500000

BonusPercent == 5

\* PhaseTransitionsConfig: thresholds and the dormant multiplier; the share of
\* the excess kept above the dominant threshold
DormantThreshold == 300000

DominantThreshold == 700000

DormantMultiplierPercent == 10

DominantExcessPercent == 30

\* _apply_saturation: 1000 / (1 + exp(-0.01 (S - 500))), for the standings of
\* the model
apply_saturation(standing) ==
    CASE standing = 200000 -> 47426
      [] standing = 310000 -> 130108
      [] standing = 500000 -> 500000
      [] standing = 580000 -> 689974
      [] standing = 900000 -> 982014

\* base_weight * exp(-decay_rate_per_day * age_days): 0.9999994 a few seconds
\* after the endorsement, 0.904837 ten days later
VouchDecay(age_seconds) == IF age_seconds < 86400 THEN 1000 ELSE 905

\* the latest time among some signals
LatestTime(signals) == CHOOSE t \in {s.time : s \in signals} : \A s \in signals : s.time <= t

\* _compute_vouch_edge_weight; utcnow is the reading of the host clock
compute_vouch_edge_weight(voucher_id, vouchee_id, signals, utcnow) ==
    LET endorsements == {s \in Range(signals) :
                            /\ s.signal_type = "ENDORSEMENT"
                            /\ s.agent_id = voucher_id
                            /\ s.object_id = vouchee_id}
    IN IF endorsements = {} THEN 0
       ELSE Max2(0, VouchDecay(utcnow.second - LatestTime(endorsements)))

\* the collaborator loop of _compute_network_bonus
RECURSIVE VouchBonus(_, _, _, _, _)
VouchBonus(collaborators, agent_id, base_effective, signals, utcnow) ==
    IF collaborators = <<>> THEN 0
    ELSE LET edge_weight == compute_vouch_edge_weight(Head(collaborators)[1], agent_id, signals, utcnow)
             rest == VouchBonus(Tail(collaborators), agent_id, base_effective, signals, utcnow)
         IN IF edge_weight > 0
            THEN RoundDiv(edge_weight * RoundDiv(PerVouchPercent * base_effective, 100), 1000) + rest
            ELSE rest

\* _compute_network_bonus
compute_network_bonus(agent_id, base_effective, context, signals, utcnow) ==
    Min2(VouchBonus(context.claimtype_collaborators, agent_id, base_effective, signals, utcnow),
         RoundDiv(MaxBonusPercent * base_effective, 100))

\* _compute_probe_bonus
compute_probe_bonus(agent_id, base_effective, context) ==
    IF context.probe_creator_id = None THEN 0
    ELSE IF context.probe_creator_id = agent_id THEN 0
    ELSE IF context.probe_creator_standing < MinCreatorStanding THEN 0
    ELSE RoundDiv(BonusPercent * base_effective, 100)

\* _compute_self_dealing_factor, in percent
compute_self_dealing_factor(agent_id, context) ==
    IF context.probe_creator_id = agent_id THEN DiscountPercent ELSE 100

\* _apply_phase_transition
apply_phase_transition(effective) ==
    IF effective < DormantThreshold
    THEN RoundDiv(effective * DormantMultiplierPercent, 100)
    ELSE IF effective > DominantThreshold
    THEN DominantThreshold + RoundDiv((effective - DominantThreshold) * DominantExcessPercent, 100)
    ELSE effective

\* compute_effective_trust
compute_effective_trust(agent_id, base_standing, context, signals, utcnow) ==
    LET base_effective == apply_saturation(base_standing)
        network_bonus == compute_network_bonus(agent_id, base_effective, context, signals, utcnow)
        probe_bonus == compute_probe_bonus(agent_id, base_effective, context)
        effective == RoundDiv((base_effective + network_bonus + probe_bonus)
                                 * compute_self_dealing_factor(agent_id, context), 100)
    IN Max2(0, Min2(apply_phase_transition(effective), MaxStanding))

\* _derive_class
derive_class(standing) ==
    IF standing < 300000 THEN "bronze"
    ELSE IF standing < 500000 THEN "silver"
    ELSE IF standing < 700000 THEN "expert"
    ELSE "authority"

\* build_trust_snapshot for one agent: its effective trust and the snapshot
\* hash; TrustSnapshot.compute_hash leaves snapshot_id and snapshot_time out
\* (sorted(flags) of at most one flag is the list itself)
build_trust_snapshot(agent_id, standing, context, signals, utcnow) ==
    LET effective == compute_effective_trust(agent_id, standing, context, signals, utcnow)
        flags == IF context.probe_creator_id = agent_id THEN <<"SELF_DEALING">> ELSE <<>>
    IN [effective_trust |-> effective,
        snapshot_hash |-> canonical_hash(
            [policy_id |-> "policy:flow_v1.0.0", policy_version |-> "1.0.0",
             agent_trusts |-> (agent_id :> [agent_id |-> agent_id, standing |-> standing,
                                            effective_trust |-> effective,
                                            derived_class |-> derive_class(standing),
                                            flags |-> flags])])]

\* --------------------------------------------------------------------------
\* Trust snapshots: a snapshot is built for one agent, the host clock moves,
\* and the snapshot is built again from the same standings, context and log
\* --------------------------------------------------------------------------

\* readings of datetime.utcnow(): some seconds after the signals, ten days later
TrustWallClock ==
    {[second |-> 7, microsecond |-> 0, tzinfo |-> "utc", utcoffset |-> 0],
     [second |-> 864007, microsecond |-> 0, tzinfo |-> "utc", utcoffset |-> 0]}

TrustStandings == {200000, 310000, 500000, 580000, 900000}

\* TrustContext: no collaborators or one, and no probe creator, the agent
\* itself, or another creator of low or high standing
TrustContexts ==
    {[claimtype_collaborators |-> collaborators, probe_creator_id |-> creator[1],
      probe_creator_standing |-> creator[2]] :
        collaborators \in {<<>>, << <<"agent-y", 600000>> >>},
        creator \in {<<None, 0>>, <<"agent-x", 0>>, <<"agent-z", 0>>, <<"agent-z", 600000>>}}

\* the signal log: empty, or holding agent-y's endorsement of agent-x
TrustLogs ==
    {<<>>,
     <<SignalOf("ENDORSEMENT", 2, "agent-y", "agent-x", [weight |-> 1])>>}

\* one call of build_trust_snapshot, made when the host clock read `clock`
SnapshotCall(in) ==
    [at |-> clock,
     out |-> build_trust_snapshot("agent-x", in.standing, in.context, in.signals, clock)]

\* a snapshot is built for agent-x
BuildSnapshot ==
    /\ trust_call = Nil
    /\ \E standing \in TrustStandings, context \in TrustContexts, signals \in TrustLogs :
          LET in == [standing |-> standing, context |-> context, signals |-> signals]
          IN trust_call' = [in |-> in, first |-> SnapshotCall(in), second |-> Nil]
    /\ UNCHANGED <<truthVars, flowVars, engineVars, consensusVars,
                   delta_call, bucket_call, offered, power_call>>

\* the snapshot is built again from the same standings, context and signals
BuildSnapshotAgain ==
    /\ trust_call # Nil
    /\ trust_call.second = Nil
    /\ trust_call' = [trust_call EXCEPT !.second = SnapshotCall(trust_call.in)]
    /\ UNCHANGED <<truthVars, flowVars, engineVars, consensusVars,
                   delta_call, bucket_call, offered, power_call>>

\* the caller drops the snapshots
DropSnapshots ==
    /\ trust_call # Nil
    /\ trust_call' = Nil
    /\ UNCHANGED <<truthVars, flowVars, engineVars, consensusVars,
                   delta_call, bucket_call, offered, power_call>>

\* days pass on the host
TickDays ==
    /\ \E c \in TrustWallClock \ {clock} : clock' = c
    /\ UNCHANGED <<prev, cur, held, origin, tamper, flowVars, engineVars, consensusVars, callVars>>

NextTrust == BuildSnapshot \/ BuildSnapshotAgain \/ DropSnapshots \/ TickDays

SpecTrust == Init /\ [][NextTrust]_vars

\* --------------------------------------------------------------------------
\* A shared signal store: a FlowCore emits and reads standings while another
\* writer appends to the same store
\* --------------------------------------------------------------------------

\* Signal(signal_id=..., ...): model_post_init keeps a signal_id that is given
SignalWithId(signal_id, signal_type, time, agent_id, object_id, payload) ==
    [signal_id |-> signal_id, signal_type |-> signal_type, time |-> time,
     agent_id |-> agent_id, object_id |-> object_id, payload |-> payload]

\* Signal.canonical_dict: the content, without signal_id
canonical_dict(signal) ==
    [signal_type |-> signal.signal_type, time |-> signal.time, agent_id |-> signal.agent_id,
     object_id |-> signal.object_id, payload |-> signal.payload]

\* the signals of the other writer: two built without a signal_id, and two
\* built with the signal_id of the first and a content of their own
WriterSignals ==
    LET registered == SignalOf("AGENT_REGISTERED", 1, "system", "agent-x", [role |-> "expert"])
    IN {registered,
        SignalOf("PENALTY_APPLIED", 2, "system", "agent-x", [amount |-> 300000]),
        SignalWithId(registered.signal_id, "AGENT_REGISTERED", 1, "system", "agent-y",
                     [role |-> "authority"]),
        SignalWithId(registered.signal_id, "PENALTY_APPLIED", 3, "system", "agent-x",
                     [amount |-> 10000])}

\* the other writer calls store.append(signal)
AppendDirect ==
    /\ Len(store) < MaxLog
    /\ \E sig \in WriterSignals :
          /\ store' = append(store, sig)
          /\ offered' = sig
    /\ UNCHANGED <<truthVars, engineVars, consensusVars, standings_cache, cache_valid,
                   replayed, reduced, delta_call, trust_call, bucket_call, power_call>>

NextStore == Emit \/ AppendDirect \/ GetStanding \/ InvalidateCache

SpecStore == Init /\ [][NextStore]_vars

\* --------------------------------------------------------------------------
\* kaori_truth/time/bucket.py. A datetime's second counts from 00:00 of a
\* day 0; durations are in seconds
\* --------------------------------------------------------------------------

\* BucketDuration
BucketDurations == {"PT1M", "PT15M", "PT1H", "PT4H", "PT6H", "P1D", "P7D", "P30D"}

\* parse_bucket_duration(duration).to_timedelta(), for the values of BucketDuration
DurationSeconds(duration) ==
    CASE duration = "PT1M" -> 60
      [] duration = "PT15M" -> 900
      [] duration = "PT1H" -> 3600
      [] duration = "PT4H" -> 14400
      [] duration = "PT6H" -> 21600
      [] duration = "P1D" -> 86400
      [] duration = "P7D" -> 604800
      [] duration = "P30D" -> 2592000

\* the day, hour, minute and second fields of a UTC datetime
FieldsOf(dt) ==
    [day |-> dt.second \div 86400, hour |-> (dt.second \div 3600) % 24,
     minute |-> (dt.second \div 60) % 60, second |-> dt.second % 60,
     microsecond |-> dt.microsecond]

\* datetime.replace(...): the UTC datetime of some fields
Replaced(fields) ==
    [second |-> ((fields.day * 24 + fields.hour) * 60 + fields.minute) * 60 + fields.second,
     microsecond |-> fields.microsecond, tzinfo |-> "utc", utcoffset |-> 0]

\* a bucketing that rounds to the nearest day where bucket_datetime truncates
bucket_datetime_nearest(dt, duration) ==
    LET f == FieldsOf(ensure_utc(dt))
    IN CASE duration = "PT1M" ->
              Replaced([f EXCEPT !.second = 0, !.microsecond = 0])
         [] duration = "PT15M" ->
              Replaced([f EXCEPT !.minute = (f.minute \div 15) * 15, !.second = 0, !.microsecond = 0])
         [] duration = "PT1H" ->
              Replaced([f EXCEPT !.minute = 0, !.second = 0, !.microsecond = 0])
         [] duration = "PT4H" ->
              Replaced([f EXCEPT !.hour = (f.hour \div 4) * 4, !.minute = 0, !.second = 0,
                                 !.microsecond = 0])
         [] duration = "PT6H" ->
              Replaced([f EXCEPT !.hour = (f.hour \div 6) * 6, !.minute = 0, !.second = 0,
                                 !.microsecond = 0])
         [] duration \in {"P1D", "P7D", "P30D"} ->
              Replaced([f EXCEPT !.day = IF f.hour >= 12 THEN f.day + 1 ELSE f.day,
                                 !.hour = 0, !.minute = 0, !.second = 0, !.microsecond = 0])

\* bucket_datetime, for the values of BucketDuration
bucket_datetime(dt, duration) ==
    LET f == FieldsOf(ensure_utc(dt))
    IN CASE duration = "PT1M" ->
              Replaced([f EXCEPT !.second = 0, !.microsecond = 0])
         [] duration = "PT15M" ->
              Replaced([f EXCEPT !.minute = (f.minute \div 15) * 15, !.second = 0, !.microsecond = 0])
         [] duration = "PT1H" ->
              Replaced([f EXCEPT !.minute = 0, !.second = 0, !.microsecond = 0])
         [] duration = "PT4H" ->
              Replaced([f EXCEPT !.hour = (f.hour \div 4) * 4, !.minute = 0, !.second = 0,
                                 !.microsecond = 0])
         [] duration = "PT6H" ->
              Replaced([f EXCEPT !.hour = (f.hour \div 6) * 6, !.minute = 0, !.second = 0,
                                 !.microsecond = 0])
         [] duration \in {"P1D", "P7D", "P30D"} ->
              Replaced([f EXCEPT !.hour = 0, !.minute = 0, !.second = 0, !.microsecond = 0])

\* bucket_bounds: (bucket_start, bucket_start + delta)
bucket_bounds(dt, duration) ==
    LET bucket_start == bucket_datetime(dt, duration)
    IN [bucket_start |-> bucket_start,
        bucket_end |-> [bucket_start EXCEPT !.second = bucket_start.second + DurationSeconds(duration)]]

\* --------------------------------------------------------------------------
\* Bucketing: two instants are bucketed with one duration
\* --------------------------------------------------------------------------

\* seconds of the instants bucketed: around the boundaries of the minute, the
\* quarter, the hours, the day (23:59:59 is 86399), the week and the month
InstantSeconds ==
    {0, 59, 899, 900, 3599, 14400, 21599, 86399, 86400, 129600, 604799, 604800, 2592000}

\* timezone-aware datetimes: UTC ones, one with a sub-second part, and
\* 01:00+02:00 of day 1, which is 23:00 UTC of day 0
Instants ==
    {[second |-> s, microsecond |-> 0, tzinfo |-> "utc", utcoffset |-> 0] : s \in InstantSeconds}
    \cup {[second |-> 86399, microsecond |-> 500000, tzinfo |-> "utc", utcoffset |-> 0],
          [second |-> 90000, microsecond |-> 0, tzinfo |-> "+02:00", utcoffset |-> 7200]}

\* a caller buckets two instants and asks for the bounds of the first
BucketInstants ==
    /\ \E first \in Instants, second \in Instants, duration \in BucketDurations :
          bucket_call' = [first |-> first, second |-> second, duration |-> duration,
                          first_bucket |-> bucket_datetime(first, duration),
                          second_bucket |-> bucket_datetime(second, duration),
                          bounds |-> bucket_bounds(first, duration)]
    /\ UNCHANGED <<truthVars, flowVars, engineVars, consensusVars,
                   delta_call, trust_call, offered, power_call>>

NextBucket == BucketInstants

SpecBucket == Init /\ [][NextBucket]_vars

\* --------------------------------------------------------------------------
\* Effective power over squad memberships: trust_provider.py and
\* core/engine.py. Standings and powers in thousandths; a result is the power
\* with the number of calls made and the depth of the deepest call
\* --------------------------------------------------------------------------

\* MAX_DEPTH of _compute_power and MAX_INHERITANCE_DEPTH of compute_power
MAX_DEPTH == 3

MAX_INHERITANCE_DEPTH == 3

\* 1 / INHERITANCE_DECAY
InheritanceDivisor == 5

\* the standing of every known agent and squad, and the default of an unknown one
KnownStanding == 100000

UnknownPower == 10000

RECURSIVE provider_power_undepthed(_, _, _, _)
RECURSIVE ProviderInheritedUndepthed(_, _, _, _)
\* _compute_power without the depth test
provider_power_undepthed(squads, agent_id, visited, depth) ==
    IF agent_id \in visited THEN [power |-> 0, calls |-> 1, deepest |-> depth]
    ELSE IF agent_id \notin DOMAIN squads THEN [power |-> UnknownPower, calls |-> 1, deepest |-> depth]
    ELSE LET inherited == ProviderInheritedUndepthed(squads, squads[agent_id],
                                                     visited \cup {agent_id}, depth + 1)
         IN [power |-> KnownStanding + inherited.power, calls |-> 1 + inherited.calls,
             deepest |-> Max2(depth, inherited.deepest)]

ProviderInheritedUndepthed(squads, squad_ids, visited, depth) ==
    IF squad_ids = <<>> THEN [power |-> 0, calls |-> 0, deepest |-> 0]
    ELSE LET squad == provider_power_undepthed(squads, Head(squad_ids), visited, depth)
             rest == ProviderInheritedUndepthed(squads, Tail(squad_ids), visited, depth)
         IN [power |-> squad.power \div InheritanceDivisor + rest.power,
             calls |-> squad.calls + rest.calls,
             deepest |-> Max2(squad.deepest, rest.deepest)]

RECURSIVE provider_compute_power(_, _, _, _)
RECURSIVE ProviderInherited(_, _, _, _)
\* InMemoryTrustProvider._compute_power
provider_compute_power(squads, agent_id, visited, depth) ==
    IF agent_id \in visited \/ depth >= MAX_DEPTH THEN [power |-> 0, calls |-> 1, deepest |-> depth]
    ELSE IF agent_id \notin DOMAIN squads THEN [power |-> UnknownPower, calls |-> 1, deepest |-> depth]
    ELSE LET inherited == ProviderInherited(squads, squads[agent_id],
                                            visited \cup {agent_id}, depth + 1)
         IN [power |-> KnownStanding + inherited.power, calls |-> 1 + inherited.calls,
             deepest |-> Max2(depth, inherited.deepest)]

\* the squad loop of _compute_power: each squad is given a copy of visited
ProviderInherited(squads, squad_ids, visited, depth) ==
    IF squad_ids = <<>> THEN [power |-> 0, calls |-> 0, deepest |-> 0]
    ELSE LET squad == provider_compute_power(squads, Head(squad_ids), visited, depth)
             rest == ProviderInherited(squads, Tail(squad_ids), visited, depth)
         IN [power |-> squad.power \div InheritanceDivisor + rest.power,
             calls |-> squad.calls + rest.calls,
             deepest |-> Max2(squad.deepest, rest.deepest)]

RECURSIVE engine_compute_power(_, _, _, _)
RECURSIVE EngineInherited(_, _, _, _)
\* compute_power of KaoriEngine.get_trust_result
engine_compute_power(squads, current_agent_id, depth, visited) ==
    LET intrinsic == IF current_agent_id \in DOMAIN squads THEN KnownStanding ELSE 0
        squad_ids == IF current_agent_id \in DOMAIN squads THEN squads[current_agent_id] ELSE <<>>
    IN IF current_agent_id \in visited THEN [power |-> 0, calls |-> 1, deepest |-> depth]
       ELSE IF depth >= MAX_INHERITANCE_DEPTH THEN [power |-> intrinsic, calls |-> 1, deepest |-> depth]
       ELSE LET inherited == EngineInherited(squads, squad_ids,
                                             visited \cup {current_agent_id}, depth + 1)
            IN [power |-> intrinsic + inherited.power, calls |-> 1 + inherited.calls,
                deepest |-> Max2(depth, inherited.deepest)]

\* the squad loop of compute_power
EngineInherited(squads, squad_ids, visited, depth) ==
    IF squad_ids = <<>> THEN [power |-> 0, calls |-> 0, deepest |-> 0]
    ELSE LET squad == engine_compute_power(squads, Head(squad_ids), depth, visited)
             rest == EngineInherited(squads, Tail(squad_ids), visited, depth)
         IN [power |-> squad.power \div InheritanceDivisor + rest.power,
             calls |-> squad.calls + rest.calls,
             deepest |-> Max2(squad.deepest, rest.deepest)]

\* --------------------------------------------------------------------------
\* Membership graphs: the power of one agent is computed over some graph
\* --------------------------------------------------------------------------

\* the agents and squads that are known; "ghost" is a squad id nobody registered
PowerAgents == {"a1", "a2", "a3", "a4", "a5"}

\* the memberships one agent may have: none, one squad, and for a1 two squads
Memberships(agent_id) ==
    {<<>>} \cup {<<s>> : s \in PowerAgents \cup {"ghost"}}
    \cup (IF agent_id = "a1"
          THEN {<<s, t>> : s \in {"a1", "a2"}, t \in {"a2", "a3", "ghost"}}
          ELSE {})

\* the membership graphs: cyclic ones and self-memberships included
MembershipGraphs == {g \in [PowerAgents -> UNION {Memberships(a) : a \in PowerAgents}] :
                        \A a \in PowerAgents : g[a] \in Memberships(a)}

\* the power of a1 is computed by the provider and by the engine
ComputePower ==
    /\ power_call = Nil
    /\ \E squads \in MembershipGraphs :
          power_call' = [squads |-> squads,
                         provider |-> provider_compute_power(squads, "a1", {}, 0),
                         engine |-> engine_compute_power(squads, "a1", 0, {})]
    /\ UNCHANGED <<truthVars, flowVars, engineVars, consensusVars,
                   delta_call, trust_call, bucket_call, offered>>

\* the caller drops the result
DropPower ==
    /\ power_call # Nil
    /\ power_call' = Nil
    /\ UNCHANGED <<truthVars, flowVars, engineVars, consensusVars,
                   delta_call, trust_call, bucket_call, offered>>

NextPower == ComputePower \/ DropPower

SpecPower == Init /\ [][NextPower]_vars

\* --------------------------------------------------------------------------
\* The engine with its timeout job scheduled: time keeps passing and
\* process_stale_reviews keeps being run (run_timeout_check is the periodic
\* entry point of the job)
\* --------------------------------------------------------------------------

SpecEngineFair ==
    /\ Init
    /\ [][NextEngine]_vars
    /\ WF_vars(Advance)
    /\ WF_vars(ProcessStaleReviews)

\* --------------------------------------------------------------------------
\* Properties of the compiler
\* --------------------------------------------------------------------------

BothCompiled == prev # Nil /\ prev.out.kind = "TruthState" /\ cur.out.kind = "TruthState"

\* the two calls differ at most in compile_time and compiler_version
SameButEnvelope(a, b) ==
    [a EXCEPT !.compile_time = Nil, !.compiler_version = ""] =
    [b EXCEPT !.compile_time = Nil, !.compiler_version = ""]

\* the two calls differ at most in the order of the observations
SameButOrder(a, b) ==
    /\ IsPermutation(a.observations, b.observations)
    /\ [a EXCEPT !.observations = <<>>] = [b EXCEPT !.observations = <<>>]

DistinctCompileTimeChangesStateHash ==
    (BothCompiled /\ SameButEnvelope(prev.in, cur.in) /\ prev.in.compile_time # cur.in.compile_time)
        => /\ prev.out.ts.security.semantic_hash = cur.out.ts.security.semantic_hash
           /\ prev.out.ts.security.state_hash # cur.out.ts.security.state_hash

\* C2 amended: inputs differing only in compile_time and/or compiler_version
\* give the same semantic_hash, and the same state_hash exactly when the
\* compiler_version and the UTC whole second of compile_time are the same.
EnvelopeChangesStateHashOnly ==
    (BothCompiled /\ SameButEnvelope(prev.in, cur.in))
        => /\ prev.out.ts.security.semantic_hash = cur.out.ts.security.semantic_hash
           /\ (prev.out.ts.security.state_hash = cur.out.ts.security.state_hash)
                <=> /\ prev.in.compiler_version = cur.in.compiler_version
                    /\ canonical_datetime(prev.in.compile_time) = canonical_datetime(cur.in.compile_time)

\* C2 witness: only compile_time changed, by a whole second or more, and the
\* state_hash changed while the semantic_hash did not
CompileTimeChangedStateHash ==
    /\ BothCompiled
    /\ SameButEnvelope(prev.in, cur.in)
    /\ prev.in.compiler_version = cur.in.compiler_version
    /\ canonical_datetime(prev.in.compile_time) # canonical_datetime(cur.in.compile_time)
    /\ prev.out.ts.security.state_hash # cur.out.ts.security.state_hash
    /\ prev.out.ts.security.semantic_hash = cur.out.ts.security.semantic_hash

\* C3: every ordering of the same observations gives the same claim payload,
\* status, semantic_hash and state_hash.
ObservationOrderIrrelevant ==
    (BothCompiled /\ SameButOrder(prev.in, cur.in))
        => /\ prev.out.ts.claim = cur.out.ts.claim
           /\ prev.out.ts.status = cur.out.ts.status
           /\ prev.out.ts.security.semantic_hash = cur.out.ts.security.semantic_hash
           /\ prev.out.ts.security.state_hash = cur.out.ts.security.state_hash

\* C4: a trust snapshot whose stored hash differs from the recomputed one
\* never yields a TruthState: the call fails with CompilationError, before
\* any trust value of the snapshot is read.
BadSnapshotRejectedBeforeUse ==
    (cur # Nil /\ ~verify_hash(cur.in.trust_snapshot))
        => cur.out.kind = "CompilationError" /\ ~cur.out.used_trust

\* C4 witness: a call with observations and a compile_time, rejected for the
\* snapshot hash alone
RejectedForSnapshotHash ==
    /\ cur # Nil
    /\ cur.in.compile_time # Nil
    /\ cur.in.observations # <<>>
    /\ ~verify_hash(cur.in.trust_snapshot)
    /\ cur.out.kind = "CompilationError"
    /\ cur.out.message = "TrustSnapshot hash mismatch"


\* C5: every TruthState returned by compile_truth_state or by sign_truth_state
\* satisfies verify_hashes(): both stored hashes equal the recomputed ones.
ReturnedStatesVerifyHashes ==
    origin \in {"compiled", "signed"} => verify_hashes(held)

\* C5 witness: a state that was changed and signed again carries fresh hashes
ResignedAfterChange ==
    /\ origin = "signed"
    /\ tamper = "status"
    /\ held.security.signing_method = "local_hmac"
    /\ held.security.state_hash = compute_state_hash(held)

\* C6: verify_signature accepts a state returned by sign_truth_state, and
\* rejects it after a change to any field outside the security block or to
\* the stored semantic_hash, state_hash or signature.
VerifyAcceptsExactlyUntampered ==
    /\ origin = "signed" => verify_signature(held)
    /\ origin = "tampered" => ~verify_signature(held)


\* the signals of the log with time <= t, in log order
UpTo(signals, t) == SelectSeq(signals, LAMBDA sig : sig.time <= t)

\* C7: replay_at(t) returns the standings a fresh reducer, started from the
\* empty state, produces from exactly the signals of the log with time <= t.
ReplayMatchesFreshReducer ==
    replayed # Nil => replayed.standings = reduce(UpTo(store, replayed.at)).standings

\* C7 witness: a replay at a time that has a signal at it and a later signal
\* appended before it, the later signal changing the standings
ReplayedMidLog ==
    /\ replayed # Nil
    /\ \E i, j \in DOMAIN store : i < j /\ store[i].time > replayed.at /\ store[j].time = replayed.at
    /\ replayed.standings # reduce(store).standings
    /\ replayed.standings # <<>>

\* C8: the state the reducer produces is the same for every ordering of the
\* same signals in its input list, signals of equal time included.
ReduceOrderIrrelevant ==
    reduced # Nil => reduced.state = reduce(store)

\* C9: after reducing any sequence of signals, every standing lies within
\* the policy bounds [0, 1000].
StandingsWithinBounds ==
    reduced # Nil =>
        \A a \in DOMAIN reduced.state.standings :
            /\ reduced.state.standings[a] >= BoundsMin
            /\ reduced.state.standings[a] <= BoundsMax


\* C10: once the status of a truth state is terminal, no later observation,
\* AI validation result, vote or timeout run changes it.
TerminalStatusFrozen ==
    [][(truth_state # Nil /\ truth_state.status \in TerminalStatuses)
            => truth_state'.status = truth_state.status]_vars

\* --------------------------------------------------------------------------
\* Properties of status, basis and consensus
\* --------------------------------------------------------------------------

\* C11: every truth state with a terminal status (VERIFIED_TRUE,
\* VERIFIED_FALSE, INCONCLUSIVE, EXPIRED) has a verification_basis, whether
\* it comes from compile_truth_state, from the engine's AI validation and
\* vote transitions, or from the timeout job.
TerminalStatusHasBasis ==
    /\ (cur # Nil /\ cur.out.kind = "TruthState" /\ cur.out.ts.status \in TerminalStatuses)
          => cur.out.ts.verification_basis # None
    /\ (truth_state # Nil /\ truth_state.status \in TerminalStatuses)
          => truth_state.verification_basis # None

\* C11 witness: a review that timed out after votes that did not finalize it
TimedOutAfterVotes ==
    /\ truth_state # Nil
    /\ truth_state.status = "INCONCLUSIVE"
    /\ truth_state.votes # <<>>
    /\ truth_state.verification_basis = "TIMEOUT_INCONCLUSIVE"

\* a vote of the last compute_consensus call that is an OVERRIDE by a voter
\* of enough standing
HasQualifiedOverride ==
    \E i \in DOMAIN tally.votes :
        /\ tally.votes[i].vote_type = "OVERRIDE"
        /\ IF tally.lib = "core" THEN tally.votes[i].voter_standing \in override_standings
           ELSE tally.votes[i].voter_standing >= OverrideThreshold

\* C12: a vote list holding an OVERRIDE by a voter whose standing is at or
\* above the override threshold gives a finalized consensus with the true
\* outcome, whatever the other votes, their order and the running score.
OverrideFinalizesTrue ==
    (tally # Nil /\ HasQualifiedOverride)
        => /\ tally.record.finalized
           /\ get_consensus_outcome(tally.record) = "VERIFIED_TRUE"
           /\ tally.record.finalize_reason.reason = "AUTHORITY_OVERRIDE"

\* C12 witness: the override comes after rejections that crossed the reject
\* threshold
OverrideAfterRejections ==
    /\ tally # Nil
    /\ tally.lib = "kaori_truth"
    /\ Len(tally.votes) = 3
    /\ tally.votes[1].vote_type = "REJECT" /\ tally.votes[2].vote_type = "REJECT"
    /\ tally.votes[3].vote_type = "OVERRIDE" /\ tally.votes[3].voter_standing = OverrideThreshold
    /\ tally.record.score <= RejectThreshold
    /\ tally.record.finalized

\* C13: when votes are passed to compile_truth_state the returned TruthState
\* carries the consensus computed from them, and a consensus finalized as
\* true gives status VERIFIED_TRUE, basis HUMAN_CONSENSUS and
\* consensus.finalized = true.
VotesPopulateConsensus ==
    (cur # Nil /\ cur.out.kind = "TruthState" /\ cur.in.votes # <<>>)
        => /\ cur.out.ts.consensus = compute_consensus(cur.in.votes)
           /\ get_consensus_outcome(compute_consensus(cur.in.votes)) = "VERIFIED_TRUE"
                => /\ cur.out.ts.status = "VERIFIED_TRUE"
                   /\ cur.out.ts.verification_basis = "HUMAN_CONSENSUS"
                   /\ cur.out.ts.consensus.finalized

\* C17: a submitted observation whose reported_at is naive is rejected with
\* the naive-datetime error when it is built, and no TruthState comes from a
\* set of observations containing it.
NaiveObservationRejected ==
    (cur # Nil /\ \E i \in DOMAIN cur.in.observations : IsNaive(cur.in.observations[i].reported_at))
        => /\ cur.out.kind = "ValidationError"
           /\ cur.out.message = "Naive datetime not allowed"

\* C17 witness: a set of two observations, the first aware and the second
\* naive, was rejected
NaiveAmongAwareRejected ==
    /\ cur # Nil
    /\ Len(cur.in.observations) = 2
    /\ ~IsNaive(cur.in.observations[1].reported_at)
    /\ IsNaive(cur.in.observations[2].reported_at)
    /\ cur.out.kind = "ValidationError"

\* --------------------------------------------------------------------------
\* Properties of the compiler's derivation, validation and status rules
\* --------------------------------------------------------------------------

\* the severity values of the call whose total weight is the largest
TiedSeverities(in) ==
    LET keys == Range(SeverityKeys(in.observations))
        w(k) == SeverityWeight(in.observations, in.trust_snapshot, k)
    IN {k \in keys : \A k2 \in keys : w(k2) <= w(k)}

\* C14: when several severity values have the same, largest, total weight in
\* an earth or ocean derivation, the derived severity is the
\* lexicographically smallest of them.
SeverityTieGivesSmallest ==
    (/\ cur # Nil
     /\ cur.out.kind = "TruthState"
     /\ cur.in.claim_type.domain \in {"earth", "ocean"}
     /\ Cardinality(TiedSeverities(cur.in)) > 1)
        => \A k \in TiedSeverities(cur.in) : LexRank(cur.out.ts.claim.severity) <= LexRank(k)

\* C15: compile_truth_state fails with CompilationError, and returns no
\* TruthState, whenever compile_time is missing or is not timezone-aware.
CompileTimeMustBeAware ==
    (cur # Nil /\ (cur.in.compile_time = Nil \/ IsNaive(cur.in.compile_time)))
        => cur.out.kind = "CompilationError"

\* C16: compilation fails whenever the claim type's (domain, spatial_system)
\* pair is not one of earth/ocean -> h3, space -> healpix, meta -> meta, or
\* the truth key's domain or spatial system differs from the claim type's.
DomainConfigEnforced ==
    (/\ cur # Nil
     /\ \/ cur.in.claim_type.spatial_system \notin valid_combos(cur.in.claim_type.domain)
        \/ TruthKeySegments(cur.in.truth_key).domain # cur.in.claim_type.domain
        \/ TruthKeySegments(cur.in.truth_key).spatial_system # cur.in.claim_type.spatial_system)
        => cur.out.kind # "TruthState"

\* C18: a meta-domain claim whose observations carry no boolean `valid`
\* fails with a claim-derivation error; no TruthState is returned with the
\* field left out.
MetaClaimNeedsValid ==
    (/\ cur # Nil
     /\ ValidationFailure(cur.in) = ""
     /\ ~IsNaive(cur.in.compile_time)
     /\ cur.in.claim_type.domain = "meta"
     /\ \A i \in DOMAIN cur.in.observations : IsValidOf(cur.in.observations[i].payload) = <<>>)
        => /\ cur.out.kind = "CompilationError"
           /\ cur.out.message = "Claim derivation failed"

\* the scores the aggregate is computed from
EffectiveScores(in) ==
    IF in.ai_scores = <<>> THEN [i \in 1..Len(in.observations) |-> DefaultAiScore] ELSE in.ai_scores

\* the sample variance of the scores exceeds 0.15
VarianceExceeds(scores) ==
    /\ Len(scores) > 1
    /\ VarianceNumerator(scores) > 15000000 * Len(scores) * (Len(scores) - 1)

\* the sample variance of the scores, rounded to six decimals, exceeds 0.15
RoundedVarianceExceeds(scores) ==
    /\ Len(scores) > 1
    /\ RoundDiv(VarianceNumerator(scores), 100 * Len(scores) * (Len(scores) - 1)) > 150000

\* status UNDECIDED with the CONTRADICTION_DETECTED flag, and a confidence of
\* the mean score less the 0.20 penalty, clamped to [0, 1]
ContradictionOutcome(call) ==
    /\ call.out.ts.status = "UNDECIDED"
    /\ "CONTRADICTION_DETECTED" \in Range(call.out.ts.transparency_flags)
    /\ call.out.ts.confidence =
          Max2(0, Min2(ScoreOne, call.out.ts.ai_confidence - ContradictionPenalty))

\* C19 as stated: whenever the variance of the AI scores exceeds 0.15 the
\* compiler returns UNDECIDED with CONTRADICTION_DETECTED and the confidence
\* is the score less the 0.20 penalty, clamped to [0, 1].
VarianceAboveThresholdIsContradiction ==
    (cur # Nil /\ cur.out.kind = "TruthState" /\ VarianceExceeds(EffectiveScores(cur.in)))
        => ContradictionOutcome(cur)

\* C19 amended: whenever the variance of the AI scores, rounded to six
\* decimals, exceeds 0.15 the compiler returns UNDECIDED with
\* CONTRADICTION_DETECTED and the confidence is the score less the 0.20
\* penalty, clamped to [0, 1]; a variance that rounds to 0.15 or less raises
\* no CONTRADICTION_DETECTED flag.
RoundedVarianceAboveThresholdIsContradiction ==
    (cur # Nil /\ cur.out.kind = "TruthState")
        => IF RoundedVarianceExceeds(EffectiveScores(cur.in))
           THEN ContradictionOutcome(cur)
           ELSE "CONTRADICTION_DETECTED" \notin Range(cur.out.ts.transparency_flags)

\* C19 witness: scores of variance 0.162 and mean 0.18 gave UNDECIDED and a
\* confidence clamped to 0
ContradictionClampedToZero ==
    /\ cur # Nil
    /\ cur.out.kind = "TruthState"
    /\ RoundedVarianceExceeds(EffectiveScores(cur.in))
    /\ cur.out.ts.ai_confidence < ContradictionPenalty
    /\ cur.out.ts.status = "UNDECIDED"
    /\ cur.out.ts.confidence = 0

\* the AI_RECOMMENDS flag a mean AI score calls for, if any
RecommendFlags(ai_mean, claim_type) ==
    IF ai_mean >= claim_type.ai_verified_true_threshold THEN {"AI_RECOMMENDS_TRUE"}
    ELSE IF ai_mean <= claim_type.ai_verified_false_threshold THEN {"AI_RECOMMENDS_FALSE"}
    ELSE {}

\* C20: for a claim type of risk_profile critical, whatever the AI scores,
\* the compiler returns PENDING_HUMAN_REVIEW with AWAITING_HUMAN_CONSENSUS
\* (and AI_RECOMMENDS_TRUE or AI_RECOMMENDS_FALSE when the mean crosses a
\* threshold), and the engine's AI validation leaves a critical truth state
\* in PENDING_HUMAN_REVIEW with AWAITING_HUMAN_CONSENSUS, never verified by
\* the AI.
CriticalLaneAwaitsHumans ==
    /\ (cur # Nil /\ cur.out.kind = "TruthState" /\ cur.in.claim_type.risk_profile = "critical")
          => /\ cur.out.ts.status = "PENDING_HUMAN_REVIEW"
             /\ "AWAITING_HUMAN_CONSENSUS" \in Range(cur.out.ts.transparency_flags)
             /\ RecommendFlags(cur.out.ts.ai_confidence, cur.in.claim_type)
                    \subseteq Range(cur.out.ts.transparency_flags)
    /\ (truth_state # Nil /\ truth_state.risk_profile = "critical")
          => /\ truth_state.verification_basis # "AI_AUTOVALIDATION"
             /\ truth_state.status = "PENDING_HUMAN_REVIEW"
                    => "AWAITING_HUMAN_CONSENSUS" \in Range(truth_state.transparency_flags)

\* --------------------------------------------------------------------------
\* Properties of signing, trust, time buckets and the engine's timeouts
\* --------------------------------------------------------------------------

Abs(x) == IF x < 0 THEN -x ELSE x

\* C23 as stated: for any current standing and any quality_score, the absolute
\* standing change for outcome incorrect is at least 1.5 times the change for
\* outcome correct.
PenaltySharperAtEveryStanding ==
    delta_call # Nil
        => 2 * Abs(delta_call.incorrect - delta_call.standing)
              >= 3 * Abs(delta_call.correct - delta_call.standing)

\* C23 amended: when the penalised standing stays above bounds.min, the absolute
\* standing change for outcome incorrect is at least 1.5 times the change for
\* outcome correct with the same quality_score.
PenaltySharperAboveFloor ==
    (delta_call # Nil /\ delta_call.incorrect > BoundsMin)
        => 2 * Abs(delta_call.incorrect - delta_call.standing)
              >= 3 * Abs(delta_call.correct - delta_call.standing)

\* a standing of 200 and a quality score of 50: both changes are applied in full
PenaltyTwiceTheGain ==
    /\ delta_call # Nil
    /\ delta_call.standing = 200000
    /\ delta_call.quality_score = 50
    /\ delta_call.correct - delta_call.standing = 19660
    /\ delta_call.standing - delta_call.incorrect = 39320

\* C22: for fixed standings, context and signal log, build_trust_snapshot gives
\* the same effective trust and the same snapshot_hash whenever it is called.
SnapshotIndependentOfClock ==
    (trust_call # Nil /\ trust_call.second # Nil)
        => /\ trust_call.second.out.effective_trust = trust_call.first.out.effective_trust
           /\ trust_call.second.out.snapshot_hash = trust_call.first.out.snapshot_hash

\* the effective trust of agent-x on the inputs of the last call, the probe being
\* created by agent-z of the same creator standing
TrustUnderOtherCreator ==
    compute_effective_trust("agent-x", trust_call.in.standing,
                            [trust_call.in.context EXCEPT !.probe_creator_id = "agent-z"],
                            trust_call.in.signals, trust_call.first.at)

\* C24: the effective trust of an agent who is the probe creator equals
\* discount_factor times its effective trust under a different creator (here to
\* within one thousandth, the unit of the model).
SelfDealingIsDiscountedTrust ==
    (trust_call # Nil /\ trust_call.in.context.probe_creator_id = "agent-x")
        => Abs(100 * trust_call.first.out.effective_trust
                  - DiscountPercent * TrustUnderOtherCreator) <= 100

\* C25: a signal's signal_id is the hash of its canonical content, and the
\* store's append never discards a signal whose content is not stored yet: the
\* content of the signal last handed to the store is in the store.
SignalIdentityIsContent ==
    /\ \A i \in DOMAIN store : store[i].signal_id = canonical_hash(canonical_dict(store[i]))
    /\ offered # Nil
          => /\ offered.signal_id = canonical_hash(canonical_dict(offered))
             /\ \E i \in DOMAIN store : canonical_dict(store[i]) = canonical_dict(offered)

\* C28: the standings cache is never stale: whenever a read would be answered
\* from the cache, the cache holds the standings obtained by reducing all the
\* signals now in the store.
CacheNeverStale ==
    (cache_valid /\ standings_cache # Nil)
        => standings_cache = reduce(get_all(store)).standings

\* instant a is not after instant b (both UTC)
NotAfter(a, b) ==
    \/ a.second < b.second
    \/ a.second = b.second /\ a.microsecond <= b.microsecond

\* instant a is strictly before instant b (both UTC)
StrictlyBefore(a, b) == ~NotAfter(b, a)

\* C26: for every supported duration d and timezone-aware instant t,
\* bucket_datetime(t, d) <= t and t - bucket_datetime(t, d) < d.
BucketTruncates ==
    bucket_call # Nil
        => LET t == ensure_utc(bucket_call.first)
               bucket == bucket_call.first_bucket
           IN /\ NotAfter(bucket, t)
              /\ StrictlyBefore(t, [bucket EXCEPT !.second = bucket.second
                                                     + DurationSeconds(bucket_call.duration)])

\* 23:59:59.5 UTC of day 0 is put in the daily bucket of day 0
LastSecondInCurrentDay ==
    /\ bucket_call # Nil
    /\ bucket_call.duration = "P1D"
    /\ bucket_call.first.second = 86399
    /\ bucket_call.first.microsecond = 500000
    /\ bucket_call.first_bucket.second = 0

\* C30: two instants get the same bucket_datetime value exactly when the second
\* lies in the interval [bucket_start, bucket_end) that bucket_bounds returns for
\* the first.
SameBucketIffSameInterval ==
    bucket_call # Nil
        => LET t == ensure_utc(bucket_call.second)
           IN (bucket_call.first_bucket = bucket_call.second_bucket)
                 <=> /\ NotAfter(bucket_call.bounds.bucket_start, t)
                     /\ StrictlyBefore(t, bucket_call.bounds.bucket_end)

\* C27: the effective-power computation ends on every membership graph, cyclic
\* ones included (it returns after at most 1 + 2 + 4 + 8 calls on graphs of at
\* most two memberships per agent), and no call is deeper than 3 levels.
PowerComputationBounded ==
    power_call # Nil
        => /\ power_call.provider.deepest <= 3
           /\ power_call.engine.deepest <= 3
           /\ power_call.provider.calls <= 1 + 2 + 4 + 8
           /\ power_call.engine.calls <= 1 + 2 + 4 + 8

\* a cycle of five memberships: both computations stop at the third level
CycleCutAtThirdLevel ==
    /\ power_call # Nil
    /\ power_call.squads = [a \in PowerAgents |->
                               CASE a = "a1" -> <<"a2">>
                                 [] a = "a2" -> <<"a3">>
                                 [] a = "a3" -> <<"a4">>
                                 [] a = "a4" -> <<"a5">>
                                 [] a = "a5" -> <<"a1">>]
    /\ power_call.provider = [power |-> 124000, calls |-> 4, deepest |-> 3]
    /\ power_call.engine = [power |-> 124800, calls |-> 4, deepest |-> 3]

\* C29: a truth state in a non-terminal status eventually reaches a terminal
\* status when process_stale_reviews keeps running as time passes. Stated for
\* the truth states created at the first clock reading, which the clock of the
\* model outlasts by more than max_validity; observations and votes are finitely
\* many.
StaleStateReachesTerminal ==
    (truth_state # Nil /\ truth_state.created_at = 0
        /\ truth_state.status \notin TerminalStatuses)
    ~> (truth_state # Nil /\ truth_state.status \in TerminalStatuses)

====
